---- MODULE Spec2Model ----
(***************************************************************************)
(* Model of the page_translate middleware (src/chatgpt/server/server.py,   *)
(* with the gemini-experiment variant where it differs): the TTL+LRU       *)
(* TranslationCache, the token-bucket RateLimiter, the AuthFailureLimiter, *)
(* the StreamingJSONArrayParser and the /proxy/translate request pipeline. *)
(*                                                                         *)
(* Time is a global integer clock `now` (time.time() read at each call).   *)
(* Float token counts are kept exactly, as integer multiples of 1/Den of a *)
(* token.  Strings are sequences of one-character strings.                 *)
(***************************************************************************)
EXTENDS Integers, Sequences, FiniteSets, TLC

\* ------------------------------------------------------------------ bounds
MaxTime == 3        \* the clock runs over 0..MaxTime
NumKeys == 3        \* distinct (texts, lang, model) fingerprints
MaxGets == 2        \* cap on hits + misses in the component specification
MaxItems == 2       \* longest JSON array given to the parser
NumReqs == 2        \* translate requests that can run at the same time
MaxArrivals == 4    \* translate requests that arrive in one run
MaxTail == 3        \* parser buffer length up to which more chunks are fed after the text
MaxFails == 3       \* record_failure calls per client in the component specification

\* ----------------------------------------------------------- configuration
max_size == 2       \* TranslationCache.max_size
ttl == 2            \* TranslationCache.ttl
burst == 3          \* RateLimiter.burst
Den == 2            \* token counts are multiples of 1/Den
RateNum == 1        \* RateLimiter.rate = RateNum/Den tokens per clock tick
max_attempts == 2   \* AuthFailureLimiter.max_attempts
lockout_seconds == 3 \* AuthFailureLimiter.lockout_seconds
max_concurrent_api_calls == 1 \* capacity of the upstream concurrency gate
window_seconds == 2 \* AuthFailureLimiter.window_seconds
client_ttl == 2     \* RateLimiter.cleanup_old_entries: max_age

Keys == 1..NumKeys
\* translation arrays stored in the component specification
Vals == {<<"a">>, <<"b">>}

Clients == {"c1", "c2"}

VARIABLES
  now,        \* time.time()
  cache,      \* TranslationCache._cache, LRU end first
  hits,       \* TranslationCache._hits
  misses,     \* TranslationCache._misses
  tokens,     \* RateLimiter._tokens, in units of 1/Den token
  rlast,      \* RateLimiter._last
  admits,     \* per client, the times of the acquire calls that returned
              \* allowed (kept by the rate limiter specification only)
  failures,   \* AuthFailureLimiter._failures
  lockouts,   \* AuthFailureLimiter._lockouts
  flog,       \* per client, the times of all record_failure calls (kept by
              \* the auth limiter specification only)
  parser,     \* StreamingJSONArrayParser: buffer, in_array, items_yielded
  rest,       \* the upstream text not yet fed to the parser
  expected,   \* the array of strings the upstream text serializes
  emitted,    \* every item returned by feed so far, in order
  cutEsc,     \* some chunk so far ended directly after a backslash
  text,       \* the whole upstream text of the run: what was fed, then rest
  reqs,       \* the running translate requests: position in the handler, locals
  done,       \* the request the last step completed, with its response
  arrived,    \* how many requests have arrived
  lockedUntil, \* per client, the latest lockout expiry record_failure has set
  locks,      \* the task inside each component's asyncio.Lock (0: the lock is free)
  last        \* the most recent component call: its arguments and what it returned

cacheVars == <<cache, hits, misses>>
rateVars == <<tokens, rlast, admits>>
authVars == <<failures, lockouts, flog>>
parseVars == <<parser, rest, expected, emitted, cutEsc, text>>
pipeVars == <<reqs, done, arrived, lockedUntil, locks>>

\* ------------------------------------------------------------------ helpers
Min(a, b) == IF a <= b THEN a ELSE b

RECURSIVE SeqFilterOut(_, _)
\* the entries of an OrderedDict, in order, without key k
SeqFilterOut(s, k) ==
  IF s = <<>> THEN <<>>
  ELSE IF Head(s).key = k THEN SeqFilterOut(Tail(s), k)
       ELSE <<Head(s)>> \o SeqFilterOut(Tail(s), k)

HasKey(c, k) == \E i \in 1..Len(c) : c[i].key = k
Entry(c, k) == c[CHOOSE i \in 1..Len(c) : c[i].key = k]

\* ------------------------------------------------------- TranslationCache
\* variant of Fresh that still serves an entry aged exactly ttl
FreshInclusive(e, t) == t - e.ts <= ttl

\* time.time() - entry["ts"] < self.ttl
Fresh(e, t) == t - e.ts < ttl

\* variant of CacheGet whose hit leaves the entry where it is in the order
CacheGetNoTouch(c, h, m, k, t) ==
  IF HasKey(c, k)
  THEN IF Fresh(Entry(c, k), t)
       THEN [cache |-> c, hits |-> h + 1, misses |-> m,
             found |-> TRUE, data |-> Entry(c, k).data]
       ELSE [cache |-> SeqFilterOut(c, k),
             hits |-> h, misses |-> m + 1,
             found |-> FALSE, data |-> <<>>]
  ELSE [cache |-> c, hits |-> h, misses |-> m + 1,
        found |-> FALSE, data |-> <<>>]

\* TranslationCache.get: the cache after the call, the returned value and
\* the counters.  cache[1] is the LRU end of the OrderedDict.
CacheGet(c, h, m, k, t) ==
  IF HasKey(c, k)
  THEN IF Fresh(Entry(c, k), t)
       THEN [cache |-> SeqFilterOut(c, k) \o <<Entry(c, k)>>,
             hits |-> h + 1, misses |-> m,
             found |-> TRUE, data |-> Entry(c, k).data]
       ELSE [cache |-> SeqFilterOut(c, k),
             hits |-> h, misses |-> m + 1,
             found |-> FALSE, data |-> <<>>]
  ELSE [cache |-> c, hits |-> h, misses |-> m + 1,
        found |-> FALSE, data |-> <<>>]

\* variant of Evict that makes room for one more entry than it has to
EvictEager(c) == IF Len(c) > max_size THEN Tail(Tail(c)) ELSE c

\* variant of Evict that never removes an entry
EvictNone(c) == c

RECURSIVE Evict(_)
\* while len(self._cache) > self.max_size: self._cache.popitem(last=False)
Evict(c) == IF Len(c) > max_size THEN Evict(Tail(c)) ELSE c

\* variant of CacheSet that keeps the value a stored key already has
CacheSetKeepFirst(c, k, v, t) ==
  IF HasKey(c, k) THEN SeqFilterOut(c, k) \o <<Entry(c, k)>>
  ELSE Evict(c \o <<[key |-> k, data |-> v, ts |-> t]>>)

\* variant of CacheSet that stamps every remaining entry with the time of the call
CacheSetRestamp(c, k, v, t) ==
  LET s == Evict(SeqFilterOut(c, k) \o <<[key |-> k, data |-> v, ts |-> t]>>)
  IN [i \in 1..Len(s) |-> [s[i] EXCEPT !.ts = t]]

\* TranslationCache.set
CacheSet(c, k, v, t) ==
  Evict(SeqFilterOut(c, k) \o <<[key |-> k, data |-> v, ts |-> t]>>)

\* an empty dict
EmptyMap == [x \in {} |-> 0]

\* ------------------------------------------------------------ RateLimiter
\* f with client c mapped to v (a dict assignment)
Put(f, c, v) == [x \in DOMAIN f \cup {c} |-> IF x = c THEN v ELSE f[x]]
\* f without client c (dict.pop(c, None))
Drop(f, c) == [x \in DOMAIN f \ {c} |-> f[x]]

\* min(self.burst, self._tokens[client] + elapsed * self.rate)
Refill(old, elapsed) == Min(burst * Den, old + elapsed * RateNum)

\* variant of Admit that asks for more than one token
AdmitStrict(tok) == tok > Den

\* if self._tokens[client] >= 1
Admit(tok) == tok >= Den

\* variant of Acquire that forgets to store the time of the call
AcquireStale(tok, lst, c, t) ==
  LET old == IF c \in DOMAIN tok THEN tok[c] ELSE burst * Den
      prev == IF c \in DOMAIN tok THEN lst[c] ELSE t
      refilled == Refill(old, t - prev)
      kept == IF c \in DOMAIN lst THEN lst ELSE Put(lst, c, t)
  IN IF Admit(refilled)
     THEN [tokens |-> Put(tok, c, refilled - Den), rlast |-> kept,
           allowed |-> TRUE, wait_num |-> 0]
     ELSE [tokens |-> Put(tok, c, refilled), rlast |-> kept,
           allowed |-> FALSE, wait_num |-> Den - refilled]

\* variant of Acquire that takes the token of a refused call as well
AcquireChargeDenied(tok, lst, c, t) ==
  LET old == IF c \in DOMAIN tok THEN tok[c] ELSE burst * Den
      prev == IF c \in DOMAIN tok THEN lst[c] ELSE t
      refilled == Refill(old, t - prev)
  IN [tokens |-> Put(tok, c, refilled - Den), rlast |-> Put(lst, c, t),
      allowed |-> Admit(refilled),
      wait_num |-> IF Admit(refilled) THEN 0 ELSE Den - refilled]

\* RateLimiter.acquire: the limiter after the call and the returned pair;
\* wait is returned as wait_num / RateNum clock ticks.
Acquire(tok, lst, c, t) ==
  LET old == IF c \in DOMAIN tok THEN tok[c] ELSE burst * Den
      prev == IF c \in DOMAIN tok THEN lst[c] ELSE t
      refilled == Refill(old, t - prev)
  IN IF Admit(refilled)
     THEN [tokens |-> Put(tok, c, refilled - Den), rlast |-> Put(lst, c, t),
           allowed |-> TRUE, wait_num |-> 0]
     ELSE [tokens |-> Put(tok, c, refilled), rlast |-> Put(lst, c, t),
           allowed |-> FALSE, wait_num |-> Den - refilled]

\* ----------------------------------------------------- AuthFailureLimiter
\* the stored failure times of client c
Stored(f, c) == IF c \in DOMAIN f THEN f[c] ELSE <<>>

RECURSIVE InWindow(_, _)
\* [ts for ts in self._failures[client] if now - ts < self.window_seconds]
InWindow(s, t) ==
  IF s = <<>> THEN <<>>
  ELSE IF t - Head(s) < window_seconds THEN <<Head(s)>> \o InWindow(Tail(s), t)
       ELSE InWindow(Tail(s), t)

\* variant of IsLockedOut that keeps the failure history of an expired lockout
IsLockedOutKeepFailures(f, l, c, t) ==
  IF c \in DOMAIN l
  THEN IF l[c] - t > 0
       THEN [failures |-> f, lockouts |-> l, locked |-> TRUE, remaining |-> l[c] - t]
       ELSE [failures |-> f, lockouts |-> Drop(l, c),
             locked |-> FALSE, remaining |-> 0]
  ELSE [failures |-> f, lockouts |-> l, locked |-> FALSE, remaining |-> 0]

\* AuthFailureLimiter.is_locked_out
IsLockedOut(f, l, c, t) ==
  IF c \in DOMAIN l
  THEN IF l[c] - t > 0
       THEN [failures |-> f, lockouts |-> l, locked |-> TRUE, remaining |-> l[c] - t]
       ELSE [failures |-> Drop(f, c), lockouts |-> Drop(l, c),
             locked |-> FALSE, remaining |-> 0]
  ELSE [failures |-> f, lockouts |-> l, locked |-> FALSE, remaining |-> 0]

\* variant of RecordFailure that locks only above max_attempts
RecordFailureStrict(f, l, c, t) ==
  LET kept == InWindow(IF c \in DOMAIN f THEN f[c] ELSE <<>>, t) \o <<t>>
      failure_count == Len(kept)
  IN IF failure_count > max_attempts
     THEN [failures |-> Put(f, c, kept), lockouts |-> Put(l, c, t + lockout_seconds),
           locked |-> TRUE, attempts_left |-> 0]
     ELSE [failures |-> Put(f, c, kept), lockouts |-> l,
           locked |-> FALSE, attempts_left |-> max_attempts - failure_count]

\* AuthFailureLimiter.record_failure
RecordFailure(f, l, c, t) ==
  LET kept == InWindow(IF c \in DOMAIN f THEN f[c] ELSE <<>>, t) \o <<t>>
      failure_count == Len(kept)
  IN IF failure_count >= max_attempts
     THEN [failures |-> Put(f, c, kept), lockouts |-> Put(l, c, t + lockout_seconds),
           locked |-> TRUE, attempts_left |-> 0]
     ELSE [failures |-> Put(f, c, kept), lockouts |-> l,
           locked |-> FALSE, attempts_left |-> max_attempts - failure_count]

\* variant of RecordSuccess that forgets the failures and keeps the lockout
RecordSuccessKeepLock(f, l, c) == [failures |-> Drop(f, c), lockouts |-> l]

\* AuthFailureLimiter.record_success
RecordSuccess(f, l, c) == [failures |-> Drop(f, c), lockouts |-> Drop(l, c)]

\* ------------------------------------------------ StreamingJSONArrayParser
QUOTE == "\""
BSL == "\\"
NL == "\n"
\* characters removed by str.lstrip()
Whitespace == {" ", NL}

RECURSIVE LStrip(_)
LStrip(s) ==
  IF s # <<>> /\ Head(s) \in Whitespace THEN LStrip(Tail(s)) ELSE s

RECURSIVE Find(_, _, _)
\* str.find from position i (1-based): the first index of ch, or 0
Find(s, ch, i) ==
  IF i > Len(s) THEN 0
  ELSE IF s[i] = ch THEN i ELSE Find(s, ch, i + 1)

RECURSIVE Unescape(_)
\* json.loads on the inside of a string literal: [ok, out]; an escape other
\* than \" \\ \n, a lone backslash or a raw control character raises
Unescape(s) ==
  IF s = <<>> THEN [ok |-> TRUE, out |-> <<>>]
  ELSE IF Head(s) = BSL
       THEN IF Len(s) < 2 \/ s[2] \notin {QUOTE, BSL, "n"}
            THEN [ok |-> FALSE, out |-> <<>>]
            ELSE LET r == Unescape(SubSeq(s, 3, Len(s)))
                     ch == IF s[2] = "n" THEN NL ELSE s[2]
                 IN [ok |-> r.ok, out |-> <<ch>> \o r.out]
       ELSE IF Head(s) \in {NL, QUOTE}
            THEN [ok |-> FALSE, out |-> <<>>]
            ELSE LET r == Unescape(Tail(s))
                 IN [ok |-> r.ok, out |-> <<Head(s)>> \o r.out]

NoItem(b) == [ok |-> FALSE, item |-> <<>>, remaining |-> b]

\* json.loads(self.buffer[: i + 1]) and the pair _parse_string returns
Close(b, i) ==
  LET r == Unescape(SubSeq(b, 2, i - 1))
  IN IF r.ok THEN [ok |-> TRUE, item |-> r.out, remaining |-> SubSeq(b, i + 1, Len(b))]
     ELSE NoItem(b)

RECURSIVE ScanNaive(_, _)
\* variant of Scan that ends the string at the first quote whose previous
\* character is not a backslash
ScanNaive(b, i) ==
  IF i > Len(b) THEN NoItem(b)
  ELSE IF b[i] = QUOTE /\ (i = 2 \/ b[i - 1] # BSL) THEN Close(b, i)
       ELSE ScanNaive(b, i + 1)

RECURSIVE ScanSkipOne(_, _)
\* variant of Scan that steps over the backslash only, not over the
\* character it escapes
ScanSkipOne(b, i) ==
  IF i > Len(b) THEN NoItem(b)
  ELSE IF b[i] = BSL THEN ScanSkipOne(b, i + 1)
       ELSE IF b[i] = QUOTE THEN Close(b, i)
            ELSE ScanSkipOne(b, i + 1)

RECURSIVE Scan(_, _)
\* the while loop of _parse_string, at (1-based) index i
Scan(b, i) ==
  IF i > Len(b) THEN NoItem(b)
  ELSE IF b[i] = BSL THEN Scan(b, i + 2)
       ELSE IF b[i] = QUOTE THEN Close(b, i)
            ELSE Scan(b, i + 1)

\* StreamingJSONArrayParser._parse_string
ParseString(b) == IF b = <<>> \/ Head(b) # QUOTE THEN NoItem(b) ELSE Scan(b, 2)

RECURSIVE ParseLoopOne(_, _)
\* variant of ParseLoop that stops after the first string it parses
ParseLoopOne(buf, items) ==
  LET b == LStrip(buf) IN
    IF b = <<>> THEN [buffer |-> b, items |-> items]
    ELSE IF Head(b) = "]" THEN [buffer |-> b, items |-> items]
    ELSE IF Head(b) = "," THEN ParseLoopOne(LStrip(Tail(b)), items)
    ELSE IF Head(b) = QUOTE
         THEN LET r == ParseString(b)
              IN IF r.ok THEN [buffer |-> r.remaining, items |-> Append(items, r.item)]
                 ELSE [buffer |-> b, items |-> items]
         ELSE [buffer |-> b, items |-> items]

RECURSIVE ParseLoopPast(_, _)
\* variant of ParseLoop that steps over the closing bracket and goes on
ParseLoopPast(buf, items) ==
  LET b == LStrip(buf) IN
    IF b = <<>> THEN [buffer |-> b, items |-> items]
    ELSE IF Head(b) \in {"]", ","} THEN ParseLoopPast(LStrip(Tail(b)), items)
    ELSE IF Head(b) = QUOTE
         THEN LET r == ParseString(b)
              IN IF r.ok THEN ParseLoopPast(r.remaining, Append(items, r.item))
                 ELSE [buffer |-> b, items |-> items]
         ELSE [buffer |-> b, items |-> items]

RECURSIVE ParseLoop(_, _)
\* the while loop of feed: [buffer, items]
ParseLoop(buf, items) ==
  LET b == LStrip(buf) IN
    IF b = <<>> THEN [buffer |-> b, items |-> items]
    ELSE IF Head(b) = "]" THEN [buffer |-> b, items |-> items]
    ELSE IF Head(b) = "," THEN ParseLoop(LStrip(Tail(b)), items)
    ELSE IF Head(b) = QUOTE
         THEN LET r == ParseString(b)
              IN IF r.ok THEN ParseLoop(r.remaining, Append(items, r.item))
                 ELSE [buffer |-> b, items |-> items]
         ELSE [buffer |-> b, items |-> items]

\* variant of Feed that parses the chunk alone, without the text kept from
\* earlier calls
FeedChunkOnly(p, chunk) ==
  LET buf == chunk
      start == Find(buf, "[", 1)
  IN IF ~p.in_array /\ start = 0
     THEN [parser |-> [p EXCEPT !.buffer = buf], items |-> <<>>]
     ELSE LET r == ParseLoop(IF p.in_array THEN buf
                             ELSE SubSeq(buf, start + 1, Len(buf)), <<>>)
          IN [parser |-> [buffer |-> r.buffer, in_array |-> TRUE,
                          items_yielded |-> p.items_yielded + Len(r.items)],
              items |-> r.items]

\* variant of Feed that leaves the array when the closing bracket is reached
FeedLeaveArray(p, chunk) ==
  LET buf == p.buffer \o chunk
      start == Find(buf, "[", 1)
  IN IF ~p.in_array /\ start = 0
     THEN [parser |-> [p EXCEPT !.buffer = buf], items |-> <<>>]
     ELSE LET r == ParseLoop(IF p.in_array THEN buf
                             ELSE SubSeq(buf, start + 1, Len(buf)), <<>>)
          IN [parser |-> [buffer |-> r.buffer,
                          in_array |-> ~(r.buffer # <<>> /\ Head(r.buffer) = "]"),
                          items_yielded |-> p.items_yielded + Len(r.items)],
              items |-> r.items]

\* StreamingJSONArrayParser.feed: the parser after the call and the returned list
Feed(p, chunk) ==
  LET buf == p.buffer \o chunk
      start == Find(buf, "[", 1)
  IN IF ~p.in_array /\ start = 0
     THEN [parser |-> [p EXCEPT !.buffer = buf], items |-> <<>>]
     ELSE LET r == ParseLoop(IF p.in_array THEN buf
                             ELSE SubSeq(buf, start + 1, Len(buf)), <<>>)
          IN [parser |-> [buffer |-> r.buffer, in_array |-> TRUE,
                          items_yielded |-> p.items_yielded + Len(r.items)],
              items |-> r.items]

\* StreamingJSONArrayParser.__init__
NewParser == [buffer |-> <<>>, in_array |-> FALSE, items_yielded |-> 0]

\* ------------------------------------------------- JSON texts for the parser
\* one character of a string as JSON writes it (json.dumps, ensure_ascii)
EscapeChar(ch) ==
  IF ch = QUOTE THEN <<BSL, QUOTE>>
  ELSE IF ch = BSL THEN <<BSL, BSL>>
  ELSE IF ch = NL THEN <<BSL, "n">>
  ELSE <<ch>>

RECURSIVE EscapeStr(_)
EscapeStr(s) == IF s = <<>> THEN <<>> ELSE EscapeChar(Head(s)) \o EscapeStr(Tail(s))

Literal(s) == <<QUOTE>> \o EscapeStr(s) \o <<QUOTE>>

RECURSIVE Join(_, _)
Join(items, sep) ==
  IF items = <<>> THEN <<>>
  ELSE IF Len(items) = 1 THEN Literal(items[1])
       ELSE Literal(items[1]) \o sep \o Join(Tail(items), sep)

\* json.dumps(list of str): ["a", "b"]
Dumps(items) == <<"[">> \o Join(items, <<",", " ">>) \o <<"]">>

Styles == {"compact", "dumps", "spaced"}
\* a valid JSON text of the array `items`, in one of the layouts
Encode(items, style) ==
  IF style = "compact" THEN <<"[">> \o Join(items, <<",">>) \o <<"]">>
  ELSE IF style = "dumps" THEN Dumps(items)
  ELSE <<" ", "[", NL>> \o Join(items, <<" ", ",", NL>>) \o <<" ", "]", NL>>

\* the strings the arrays are made of
ItemStrs ==
  { <<>>, <<"a">>, <<QUOTE>>, <<BSL>>, <<"]", ",">>, <<NL, "[">>, <<BSL, "n">> }

ItemLists == UNION {[1..n -> ItemStrs] : n \in 0..MaxItems}

ParserIdle ==
  /\ parser = NewParser
  /\ rest = <<>>
  /\ expected = <<>>
  /\ emitted = <<>>
  /\ cutEsc = FALSE
  /\ text = <<>>

\* ------------------------------------------------------- request pipeline
Reqs == 1..NumReqs
\* fingerprints of the requests: 0 stands for a user payload that yields no
\* texts (extract_texts returns None, or an empty list); key k > 0 has
\* NTexts(k) texts
PipeKeys == {0, 1, 2}
NTexts(k) == k

A == <<"a">>
B == <<"b">>
U == <<"u">>
\* text that is no JSON
Garbage == <<"a">>

\* the arrays an upstream answer for key k may hold
UpItems(k) ==
  IF k = 1 THEN {<<A>>, <<B>>, <<U>>, <<>>}
  ELSE IF k = 2 THEN {<<A, B>>, <<B, U>>, <<A>>}
  ELSE {<<A>>}
AllUpItems == UNION {UpItems(k) : k \in PipeKeys} \cup {<<B>>, <<B, B>>}

\* json.loads(content) when content is the text of a list of strings
IsList(content) == \E items \in AllUpItems : \E st \in Styles : Encode(items, st) = content
LoadsList(content) ==
  CHOOSE items \in AllUpItems : \E st \in Styles : Encode(items, st) = content

\* get_incomplete_indices: the positions validate_translation rejects
Incomplete(items) == {i \in 1..Len(items) : items[i] = U}

RECURSIVE SetToSeq(_)
\* the indices in increasing order
SetToSeq(S) ==
  IF S = {} THEN <<>>
  ELSE LET m == CHOOSE x \in S : \A y \in S : x <= y
       IN <<m>> \o SetToSeq(S \ {m})

\* for i, idx in enumerate(incomplete_idx): translations[idx] = retry_translations[i]
Merge(items, idx, retry) ==
  [i \in 1..Len(items) |->
     IF \E j \in 1..Len(idx) : idx[j] = i
     THEN retry[CHOOSE j \in 1..Len(idx) : idx[j] = i]
     ELSE items[i]]

\* categorize_error for the statuses the model's upstream returns
ErrorType(status) ==
  IF status = 401 THEN "UNAUTHORIZED"
  ELSE IF status = 403 THEN "FORBIDDEN"
  ELSE IF status >= 500 THEN "SERVER_ERROR"
  ELSE "UNKNOWN_ERROR"

Statuses == {200, 401, 403, 500}

IdleReq == [pc |-> "idle"]

RECURSIVE ItemFramesOneBased(_, _, _)
\* variant of ItemFrames that numbers an item by the length of the list
\* after appending it
ItemFramesOneBased(items, from, isCached) ==
  IF items = <<>> THEN <<>>
  ELSE <<IF isCached
         THEN [index |-> from + 1, translation |-> Head(items), cached |-> TRUE]
         ELSE [index |-> from + 1, translation |-> Head(items)]>>
         \o ItemFramesOneBased(Tail(items), from + 1, isCached)

\* the item frames of stream_cached (with the cached key) and of
\* stream_translations (without it), numbered from `from`
RECURSIVE ItemFrames(_, _, _)
ItemFrames(items, from, isCached) ==
  IF items = <<>> THEN <<>>
  ELSE <<IF isCached
         THEN [index |-> from, translation |-> Head(items), cached |-> TRUE]
         ELSE [index |-> from, translation |-> Head(items)]>>
         \o ItemFrames(Tail(items), from + 1, isCached)

DoneFrame(n, isCached) ==
  IF isCached THEN [done |-> TRUE, total |-> n, cached |-> TRUE]
  ELSE [done |-> TRUE, total |-> n]
ErrorFrame(type) == [error |-> type]

CachedFrames(data) == ItemFrames(data, 0, TRUE) \o <<DoneFrame(Len(data), TRUE)>>

\* variant of AuthSuccess that leaves the limiter as it is
AuthSuccessSkip(r) == UNCHANGED <<failures, lockouts, lockedUntil>>

\* variant of SameLength that accepts any number of translations
SameLengthAny(items, k) == TRUE

\* len(translations) == len(texts_to_translate), the condition of both
\* cache.set calls of the pipeline
SameLength(items, k) == Len(items) = NTexts(k)

\* variant of Extractable that takes every payload for a list of texts
ExtractableAlways(k) == TRUE

\* translate, stream_translations, handle_non_streaming_request:
\* if texts_to_translate (extract_texts found a non-empty JSON array)
Extractable(k) == k # 0

\* variant of Denied that lets a request through when the bucket is empty
DeniedNever(acq) == FALSE

\* translate: if not allowed
Denied(acq) == ~acq.allowed

\* variant of Rejected that lets a locked client through
RejectedNever(lo) == FALSE

\* translate: if is_locked
Rejected(lo) == lo.locked

\* variant of Hit that never serves from the cache
HitNever(g) == FALSE

\* translate: if cached
Hit(g) == g.found /\ g.data # <<>>

\* variant of ServeCachedAuth that counts a cache hit as a successful login
ServeCachedAuthSuccess(f, l, c) == RecordSuccess(f, l, c)

\* translate's cached branch calls no method of auth_limiter: the limiter as
\* the lockout check left it
ServeCachedAuth(f, l, c) == [failures |-> f, lockouts |-> l]

\* translate up to its first suspension (asyncio.Lock.acquire does not
\* suspend when the lock is free, and no critical section awaits): the
\* lockout check, the rate check, the cache lookup and either the local
\* answer or the start of the upstream call.  Returns the components after
\* the call and the request's record.
HandleTranslate(c, k, st) ==
  LET lo == IsLockedOut(failures, lockouts, c, now)
      acq == Acquire(tokens, rlast, c, now)
      g == CacheGet(cache, hits, misses, k, now)
      base == [pc |-> "done", client |-> c, key |-> k, stream |-> st,
               sawLock |-> lo.locked,
               underLock |-> (c \in DOMAIN lockedUntil /\ now < lockedUntil[c]),
               hadFresh |-> (k # 0 /\ HasKey(cache, k) /\ Fresh(Entry(cache, k), now)),
               usedRate |-> FALSE, usedCache |-> FALSE, hit |-> FALSE,
               ncalls |-> 0, cleared |-> 0, cached |-> <<>>, resp |-> [status |-> 0],
               frames |-> <<>>, parser |-> NewParser, rest |-> <<>>,
               all |-> <<>>, idx |-> <<>>, content |-> <<>>]
      comp == [failures |-> lo.failures, lockouts |-> lo.lockouts,
               tokens |-> tokens, rlast |-> rlast,
               cache |-> cache, hits |-> hits, misses |-> misses, req |-> base]
  IN IF Rejected(lo)
     THEN [comp EXCEPT !.req =
             [base EXCEPT !.resp = [status |-> 429, type |-> "AUTH_LOCKED_OUT",
                                    remaining |-> lo.remaining]]]
     ELSE LET comp2 == [comp EXCEPT !.tokens = acq.tokens, !.rlast = acq.rlast]
              base2 == [base EXCEPT !.usedRate = TRUE]
          IN IF Denied(acq)
             THEN [comp2 EXCEPT !.req =
                     [base2 EXCEPT !.resp = [status |-> 429, type |-> "RATE_LIMIT_EXCEEDED",
                                             wait_num |-> acq.wait_num]]]
             ELSE IF ~Extractable(k)
             THEN [comp2 EXCEPT !.req = [base2 EXCEPT !.pc = "upstream", !.ncalls = 1]]
             ELSE LET comp3 == [comp2 EXCEPT !.cache = g.cache, !.hits = g.hits,
                                             !.misses = g.misses]
                      base3 == [base2 EXCEPT !.usedCache = TRUE]
                      sc == ServeCachedAuth(lo.failures, lo.lockouts, c)
                  IN IF Hit(g)
                     THEN [comp3 EXCEPT
                             !.failures = sc.failures, !.lockouts = sc.lockouts,
                             !.req =
                             [base3 EXCEPT
                                !.hit = TRUE, !.cached = g.data,
                                !.resp = IF st THEN [status |-> 200, streaming |-> TRUE]
                                         ELSE [status |-> 200, content |-> Dumps(g.data),
                                               cached |-> TRUE],
                                !.frames = IF st THEN CachedFrames(g.data) ELSE <<>>]]
                     ELSE [comp3 EXCEPT !.req =
                             [base3 EXCEPT !.pc = "upstream", !.ncalls = 1]]

\* TranslationCache._lock, RateLimiter._lock, AuthFailureLimiter._lock, all free
NoLocks == [cache |-> 0, rate |-> 0, auth |-> 0]

PipeInit ==
  /\ reqs = [r \in Reqs |-> IdleReq]
  /\ done = IdleReq
  /\ arrived = 0
  /\ lockedUntil = EmptyMap
  /\ locks = NoLocks

\* ------------------------------------------------------------ initial state
NoOp == [op |-> "none"]

CacheInit == cache = <<>> /\ hits = 0 /\ misses = 0
RateInit == tokens = EmptyMap /\ rlast = EmptyMap /\ admits = [c \in Clients |-> <<>>]
AuthInit == failures = EmptyMap /\ lockouts = EmptyMap /\ flog = [c \in Clients |-> <<>>]

\* --------------------------------------------- TranslationCache, call by call
GetOp(k) ==
  /\ hits + misses < MaxGets
  /\ LET r == CacheGet(cache, hits, misses, k, now) IN
       /\ cache' = r.cache
       /\ hits' = r.hits
       /\ misses' = r.misses
       /\ last' = [op |-> "get", key |-> k, at |-> now,
                   had |-> HasKey(cache, k),
                   ts |-> IF HasKey(cache, k) THEN Entry(cache, k).ts ELSE 0,
                   found |-> r.found, data |-> r.data]

SetOp(k, v) ==
  /\ cache' = CacheSet(cache, k, v, now)
  /\ last' = [op |-> "set", key |-> k, at |-> now, data |-> v,
              full |-> Len(cache) = max_size, had |-> HasKey(cache, k),
              dropped |-> {e \in {cache[i] : i \in 1..Len(cache)} :
                             e.key # k /\ ~HasKey(CacheSet(cache, k, v, now), e.key)}]
  /\ UNCHANGED <<hits, misses>>

InitCache ==
  /\ now = 0
  /\ CacheInit /\ RateInit /\ AuthInit /\ ParserIdle /\ PipeInit
  /\ last = NoOp

CacheTick ==
  /\ now < MaxTime
  /\ now' = now + 1
  /\ UNCHANGED <<cacheVars, rateVars, authVars, parseVars, pipeVars, last>>

CacheGetCall == \E k \in Keys : GetOp(k) /\ UNCHANGED <<now, rateVars, authVars, parseVars, pipeVars>>
CacheSetCall ==
  \E k \in Keys, v \in Vals : SetOp(k, v) /\ UNCHANGED <<now, rateVars, authVars, parseVars, pipeVars>>

NextCache == CacheTick \/ CacheGetCall \/ CacheSetCall

vars == <<now, cache, hits, misses, tokens, rlast, admits, failures, lockouts, flog,
          parser, rest, expected, emitted, cutEsc, text, reqs, done, arrived,
          lockedUntil, locks, last>>

SpecCache == InitCache /\ [][NextCache]_vars

\* ---------------------------------------------------- RateLimiter, call by call
AcquireOp(c) ==
  LET r == Acquire(tokens, rlast, c, now) IN
    /\ tokens' = r.tokens
    /\ rlast' = r.rlast
    /\ admits' = IF r.allowed THEN [admits EXCEPT ![c] = Append(@, now)] ELSE admits
    /\ last' = [op |-> "acquire", client |-> c, at |-> now,
                new |-> c \notin DOMAIN tokens,
                old |-> IF c \in DOMAIN tokens THEN tokens[c] ELSE 0,
                prev |-> IF c \in DOMAIN tokens THEN rlast[c] ELSE 0,
                allowed |-> r.allowed, wait_num |-> r.wait_num]

InitRate ==
  /\ now = 0
  /\ CacheInit /\ RateInit /\ AuthInit /\ ParserIdle /\ PipeInit
  /\ last = NoOp

RateTick ==
  /\ now < MaxTime
  /\ now' = now + 1
  /\ UNCHANGED <<cacheVars, rateVars, authVars, parseVars, pipeVars, last>>

RateAcquireCall ==
  \E c \in Clients : AcquireOp(c) /\ UNCHANGED <<now, cacheVars, authVars, parseVars, pipeVars>>

NextRate == RateTick \/ RateAcquireCall

SpecRate == InitRate /\ [][NextRate]_vars

\* --------------------------------------------- AuthFailureLimiter, call by call
FailOp(c) ==
  /\ Len(flog[c]) < MaxFails
  /\ LET r == RecordFailure(failures, lockouts, c, now) IN
       /\ failures' = r.failures
       /\ lockouts' = r.lockouts
       /\ flog' = [flog EXCEPT ![c] = Append(@, now)]
       /\ last' = [op |-> "record_failure", client |-> c, at |-> now,
                   failures |-> failures, lockouts |-> lockouts,
                   locked |-> r.locked, attempts_left |-> r.attempts_left]

SuccessOp(c) ==
  LET r == RecordSuccess(failures, lockouts, c) IN
    /\ failures' = r.failures
    /\ lockouts' = r.lockouts
    /\ last' = [op |-> "record_success", client |-> c, at |-> now,
                failures |-> failures, lockouts |-> lockouts]
    /\ UNCHANGED flog

LockedOp(c) ==
  LET r == IsLockedOut(failures, lockouts, c, now) IN
    /\ failures' = r.failures
    /\ lockouts' = r.lockouts
    /\ last' = [op |-> "is_locked_out", client |-> c, at |-> now,
                failures |-> failures, lockouts |-> lockouts,
                locked |-> r.locked, remaining |-> r.remaining]
    /\ UNCHANGED flog

InitAuth ==
  /\ now = 0
  /\ CacheInit /\ RateInit /\ AuthInit /\ ParserIdle /\ PipeInit
  /\ last = NoOp

AuthTick ==
  /\ now < MaxTime
  /\ now' = now + 1
  /\ UNCHANGED <<cacheVars, rateVars, authVars, parseVars, pipeVars, last>>

RecordFailureCall ==
  \E c \in Clients : FailOp(c) /\ UNCHANGED <<now, cacheVars, rateVars, parseVars, pipeVars>>
RecordSuccessCall ==
  \E c \in Clients : SuccessOp(c) /\ UNCHANGED <<now, cacheVars, rateVars, parseVars, pipeVars>>
IsLockedOutCall ==
  \E c \in Clients : LockedOp(c) /\ UNCHANGED <<now, cacheVars, rateVars, parseVars, pipeVars>>

NextAuth == AuthTick \/ RecordFailureCall \/ RecordSuccessCall \/ IsLockedOutCall

SpecAuth == InitAuth /\ [][NextAuth]_vars

\* ------------------------------------------ StreamingJSONArrayParser, chunk by chunk
InitParser ==
  /\ now = 0
  /\ CacheInit /\ RateInit /\ AuthInit /\ PipeInit
  /\ parser = NewParser
  /\ expected \in ItemLists
  /\ \E style \in Styles : rest = Encode(expected, style)
  /\ text = rest
  /\ emitted = <<>>
  /\ cutEsc = FALSE
  /\ last = NoOp

\* one parser.feed(chunk), the chunk being the next k characters of the text
FeedChunk ==
  \E k \in 1..Len(rest) :
    LET chunk == SubSeq(rest, 1, k)
        r == Feed(parser, chunk)
    IN /\ parser' = r.parser
       /\ rest' = SubSeq(rest, k + 1, Len(rest))
       /\ emitted' = emitted \o r.items
       /\ cutEsc' = (cutEsc \/ chunk[k] = BSL)
       /\ last' = [op |-> "feed", n |-> k, items |-> r.items]
       /\ UNCHANGED <<now, cacheVars, rateVars, authVars, pipeVars, expected, text>>

NextParser == FeedChunk

SpecParser == InitParser /\ [][NextParser]_vars

\* chunks an upstream may go on sending after the array's text
TailChunks ==
  { <<"]">>, <<" ">>, <<",", QUOTE, "a", QUOTE>>, <<QUOTE, "a", QUOTE>>,
    <<"[", QUOTE, "a", QUOTE, "]">> }

\* one parser.feed(chunk) after the whole text was fed
FeedTail ==
  /\ rest = <<>>
  /\ Len(parser.buffer) <= MaxTail
  /\ \E chunk \in TailChunks :
       LET r == Feed(parser, chunk)
       IN /\ parser' = r.parser
          /\ emitted' = emitted \o r.items
          /\ last' = [op |-> "feed", n |-> Len(chunk), items |-> r.items]
  /\ UNCHANGED <<now, cacheVars, rateVars, authVars, pipeVars, expected, text, rest, cutEsc>>

NextParserTail == FeedChunk \/ FeedTail

SpecParserTail == InitParser /\ [][NextParserTail]_vars

\* ------------------------------------------------- the pipeline, step by step
\* upstream calls in progress
InFlight == {r \in Reqs : reqs[r].pc \in {"upstream", "retry", "streaming"}}

\* request r goes on as rec; a request that completes leaves its slot and is
\* kept in `done` until the next step
SetReq(r, rec) ==
  IF rec.pc = "done"
  THEN reqs' = [reqs EXCEPT ![r] = IdleReq] /\ done' = rec
  ELSE reqs' = [reqs EXCEPT ![r] = rec] /\ done' = IdleReq

\* a request arrives and translate runs to its first suspension
Arrive(r, Cs, Ks, Ms) ==
  /\ arrived < MaxArrivals
  /\ reqs[r].pc = "idle"
  /\ \A q \in Reqs : q < r => reqs[q].pc # "idle"
  /\ \E c \in Cs, k \in Ks, st \in Ms :
       LET h == HandleTranslate(c, k, st) IN
         /\ failures' = h.failures
         /\ lockouts' = h.lockouts
         /\ tokens' = h.tokens
         /\ rlast' = h.rlast
         /\ cache' = h.cache
         /\ hits' = h.hits
         /\ misses' = h.misses
         /\ SetReq(r, h.req)
  /\ arrived' = arrived + 1
  /\ UNCHANGED <<now, admits, flog, parseVars, lockedUntil, locks, last>>

\* the upstream answered with a status other than 200 (both paths):
\* record_failure on 401/403
AuthFailure(r, status) ==
  LET c == reqs[r].client
      rf == RecordFailure(failures, lockouts, c, now)
  IN IF status \in {401, 403}
     THEN /\ failures' = rf.failures
          /\ lockouts' = rf.lockouts
          /\ lockedUntil' = IF rf.locked THEN Put(lockedUntil, c, now + lockout_seconds)
                            ELSE lockedUntil
     ELSE UNCHANGED <<failures, lockouts, lockedUntil>>

\* the error the client is sent for a status other than 200
ErrorResp(r, status) ==
  LET rf == RecordFailure(failures, lockouts, reqs[r].client, now)
  IN [status |-> status, type |-> ErrorType(status),
      locked |-> (status \in {401, 403} /\ rf.locked),
      attempts_left |-> IF status \in {401, 403} THEN rf.attempts_left ELSE 0]

\* auth_limiter.record_success(client_id)
AuthSuccess(r) ==
  LET rs == RecordSuccess(failures, lockouts, reqs[r].client)
  IN /\ failures' = rs.failures
     /\ lockouts' = rs.lockouts
     /\ UNCHANGED lockedUntil

\* handle_non_streaming_request after http_client.post returned
BatchResponse(r, Sts) ==
  /\ reqs[r].pc = "upstream" /\ ~reqs[r].stream
  /\ \E status \in Sts :
       IF status # 200
       THEN /\ AuthFailure(r, status)
            /\ SetReq(r, [reqs[r] EXCEPT !.pc = "done", !.resp = ErrorResp(r, status)])
            /\ UNCHANGED cacheVars
       ELSE /\ AuthSuccess(r)
            /\ \E content \in {Dumps(it) : it \in UpItems(reqs[r].key)} \cup {Garbage} :
                 LET k == reqs[r].key
                     ok == Extractable(k) /\ IsList(content)
                             /\ SameLength(LoadsList(content), k)
                     items == LoadsList(content)
                 IN IF ok /\ Incomplete(items) # {}
                    THEN \* the retry call is sent: await http_client.post(...)
                         /\ SetReq(r, [reqs[r] EXCEPT !.pc = "retry", !.ncalls = @ + 1,
                                         !.cleared = Len(Stored(failures, reqs[r].client)),
                                         !.all = items, !.content = content,
                                         !.idx = SetToSeq(Incomplete(items))])
                         /\ UNCHANGED cacheVars
                    ELSE /\ cache' = IF ok THEN CacheSet(cache, k, items, now) ELSE cache
                         /\ SetReq(r, [reqs[r] EXCEPT !.pc = "done",
                                         !.cleared = Len(Stored(failures, reqs[r].client)),
                                         !.all = IF ok THEN items ELSE <<>>,
                                         !.content = content,
                                         !.resp = [status |-> 200, content |-> content,
                                                   cached |-> FALSE]])
                         /\ UNCHANGED <<hits, misses>>
  /\ UNCHANGED <<now, arrived, locks, rateVars, flog, parseVars, last>>

\* variant of RetryResponse that stores the first answer's translations
RetryResponseStoreFirst(r) ==
  /\ reqs[r].pc = "retry"
  /\ \E status \in {200, 500}, retry \in {<<B>>, <<>>} :
       LET q == reqs[r]
           merged == status = 200 /\ Len(retry) = Len(q.idx)
           items == IF merged THEN Merge(q.all, q.idx, retry) ELSE q.all
       IN /\ cache' = CacheSet(cache, q.key, q.all, now)
          /\ SetReq(r, [q EXCEPT !.pc = "done", !.all = items,
                          !.resp = [status |-> 200,
                                    content |-> IF merged THEN Dumps(items) ELSE q.content,
                                    cached |-> FALSE]])
  /\ UNCHANGED <<now, arrived, locks, hits, misses, rateVars, authVars, parseVars,
                 lockedUntil, last>>

\* variant of RetryResponse that returns the first answer's content after a merge
RetryResponseKeepContent(r) ==
  /\ reqs[r].pc = "retry"
  /\ \E status \in {200, 500}, retry \in {<<B>>, <<>>} :
       LET q == reqs[r]
           merged == status = 200 /\ Len(retry) = Len(q.idx)
           items == IF merged THEN Merge(q.all, q.idx, retry) ELSE q.all
       IN /\ cache' = CacheSet(cache, q.key, items, now)
          /\ SetReq(r, [q EXCEPT !.pc = "done", !.all = items,
                          !.resp = [status |-> 200, content |-> q.content,
                                    cached |-> FALSE]])
  /\ UNCHANGED <<now, arrived, locks, hits, misses, rateVars, authVars, parseVars,
                 lockedUntil, last>>

\* handle_non_streaming_request after the retry call returned
RetryResponse(r) ==
  /\ reqs[r].pc = "retry"
  /\ \E status \in {200, 500}, retry \in {<<B>>, <<>>} :
       LET q == reqs[r]
           merged == status = 200 /\ Len(retry) = Len(q.idx)
           items == IF merged THEN Merge(q.all, q.idx, retry) ELSE q.all
       IN /\ cache' = CacheSet(cache, q.key, items, now)
          /\ SetReq(r, [q EXCEPT !.pc = "done", !.all = items,
                          !.resp = [status |-> 200,
                                    content |-> IF merged THEN Dumps(items) ELSE q.content,
                                    cached |-> FALSE]])
  /\ UNCHANGED <<now, arrived, locks, hits, misses, rateVars, authVars, parseVars,
                 lockedUntil, last>>

\* httpx.ConnectError or httpx.TimeoutException on the batch path
BatchFail(r) ==
  /\ reqs[r].pc \in {"upstream", "retry"} /\ ~reqs[r].stream
  /\ \E exc \in {"CONNECTION_ERROR", "TIMEOUT"} :
       SetReq(r, [reqs[r] EXCEPT !.pc = "done",
                    !.resp = [status |-> IF exc = "TIMEOUT" THEN 504 ELSE 502,
                              detail |-> exc]])
  /\ UNCHANGED <<now, arrived, locks, cacheVars, rateVars, authVars, parseVars,
                 lockedUntil, last>>

\* stream_translations once the upstream's status line is in
StreamOpen(r, Sts) ==
  /\ reqs[r].pc = "upstream" /\ reqs[r].stream
  /\ \E status \in Sts :
       IF status # 200
       THEN /\ AuthFailure(r, status)
            /\ SetReq(r, [reqs[r] EXCEPT !.pc = "done",
                            !.resp = ErrorResp(r, status),
                            !.frames = <<ErrorFrame(ErrorType(status))>>])
       ELSE /\ AuthSuccess(r)
            /\ \E it \in UpItems(reqs[r].key) :
                 SetReq(r, [reqs[r] EXCEPT !.pc = "streaming", !.parser = NewParser,
                              !.cleared = Len(Stored(failures, reqs[r].client)),
                              !.rest = Dumps(it), !.content = Dumps(it),
                              !.resp = [status |-> 200, streaming |-> TRUE]])
  /\ UNCHANGED <<now, arrived, locks, cacheVars, rateVars, flog, parseVars, last>>

\* one upstream line with content: parser.feed and a frame per item
StreamChunk(r) ==
  /\ reqs[r].pc = "streaming"
  /\ \E n \in 1..Len(reqs[r].rest) :
       LET q == reqs[r]
           f == Feed(q.parser, SubSeq(q.rest, 1, n))
       IN SetReq(r, [q EXCEPT !.parser = f.parser,
                       !.rest = SubSeq(q.rest, n + 1, Len(q.rest)),
                       !.all = q.all \o f.items,
                       !.frames = q.frames \o ItemFrames(f.items, Len(q.all), FALSE)])
  /\ UNCHANGED <<now, arrived, locks, cacheVars, rateVars, authVars, parseVars,
                 lockedUntil, last>>

\* variant of StreamEnd whose done frame reports the number of requested texts
StreamEndTotalRequested(r) ==
  /\ reqs[r].pc = "streaming"
  /\ LET q == reqs[r] IN
       /\ cache' = IF q.key # 0 /\ SameLength(q.all, q.key)
                   THEN CacheSet(cache, q.key, q.all, now) ELSE cache
       /\ SetReq(r, [q EXCEPT !.pc = "done",
                       !.frames = q.frames \o <<DoneFrame(NTexts(q.key), FALSE)>>])
  /\ UNCHANGED <<now, arrived, locks, hits, misses, rateVars, authVars, parseVars,
                 lockedUntil, last>>

\* the upstream's lines end ([DONE], or the stream stops): cache and done frame
StreamEnd(r) ==
  /\ reqs[r].pc = "streaming"
  /\ LET q == reqs[r] IN
       /\ cache' = IF Extractable(q.key) /\ SameLength(q.all, q.key)
                   THEN CacheSet(cache, q.key, q.all, now) ELSE cache
       /\ SetReq(r, [q EXCEPT !.pc = "done",
                       !.frames = q.frames \o <<DoneFrame(Len(q.all), FALSE)>>])
  /\ UNCHANGED <<now, arrived, locks, hits, misses, rateVars, authVars, parseVars,
                 lockedUntil, last>>

\* variant of StreamFail that still sends the done frame after the error frame
StreamFailThenDone(r) ==
  /\ reqs[r].pc \in {"upstream", "streaming"} /\ reqs[r].stream
  /\ \E exc \in {"CONNECTION_ERROR", "TIMEOUT", "UNKNOWN_ERROR"} :
       SetReq(r, [reqs[r] EXCEPT !.pc = "done",
                    !.frames = @ \o <<ErrorFrame(exc),
                                      DoneFrame(Len(reqs[r].all), FALSE)>>])
  /\ UNCHANGED <<now, arrived, locks, cacheVars, rateVars, authVars, parseVars,
                 lockedUntil, last>>

\* an exception inside stream_translations: one error frame
StreamFail(r) ==
  /\ reqs[r].pc \in {"upstream", "streaming"} /\ reqs[r].stream
  /\ \E exc \in {"CONNECTION_ERROR", "TIMEOUT", "UNKNOWN_ERROR"} :
       SetReq(r, [reqs[r] EXCEPT !.pc = "done",
                    !.frames = @ \o <<ErrorFrame(exc)>>])
  /\ UNCHANGED <<now, arrived, locks, cacheVars, rateVars, authVars, parseVars,
                 lockedUntil, last>>

PipeTick ==
  /\ now < MaxTime
  /\ now' = now + 1
  /\ done' = IdleReq
  /\ UNCHANGED <<arrived, reqs, lockedUntil, locks, cacheVars, rateVars, authVars, parseVars, last>>

Init ==
  /\ now = 0
  /\ CacheInit /\ RateInit /\ AuthInit /\ ParserIdle /\ PipeInit
  /\ last = NoOp

\* concurrent batch requests of one client, with and without texts
Next ==
  \/ PipeTick
  \/ \E r \in Reqs : Arrive(r, {"c1"}, {0, 1}, {FALSE})
  \/ \E r \in Reqs : BatchResponse(r, Statuses)
  \/ \E r \in Reqs : RetryResponse(r)
  \/ \E r \in Reqs : BatchFail(r)

Spec == Init /\ [][Next]_vars

\* one request at a time, in both modes, for the keys with texts
NextSeq ==
  \/ PipeTick
  \/ Arrive(1, {"c1"}, {1, 2}, BOOLEAN)
  \/ BatchResponse(1, {200, 500})
  \/ RetryResponse(1)
  \/ BatchFail(1)
  \/ StreamOpen(1, {200, 500})
  \/ StreamChunk(1)
  \/ StreamEnd(1)
  \/ StreamFail(1)

SpecSeq == Init /\ [][NextSeq]_vars

\* one request at a time, in both modes, with and without texts, the
\* upstream answering with every status
NextAcct ==
  \/ PipeTick
  \/ Arrive(1, {"c1"}, {0, 1}, BOOLEAN)
  \/ BatchResponse(1, Statuses)
  \/ RetryResponse(1)
  \/ BatchFail(1)
  \/ StreamOpen(1, Statuses)
  \/ StreamChunk(1)
  \/ StreamEnd(1)
  \/ StreamFail(1)

SpecAcct == Init /\ [][NextAcct]_vars

\* one batch request at a time of either client, for one key, the upstream
\* accepting or refusing the credentials
NextTwo ==
  \/ PipeTick
  \/ Arrive(1, Clients, {1}, {FALSE})
  \/ BatchResponse(1, {200, 401})
  \/ RetryResponse(1)
  \/ BatchFail(1)

SpecTwo == Init /\ [][NextTwo]_vars

\* =========================================================== properties

\* C3: after any sequence of set and get calls the cache holds at most
\* max_size entries.
C3_SizeBounded == Len(cache) <= max_size

C3_Witness ==
  /\ last.op = "set" /\ last.full /\ ~last.had
  /\ Len(cache) = max_size

\* C4: get returns an entry only when now - inserted_at < ttl; a key found
\* with age >= ttl yields absent and is removed in the same call.
C4_GetFreshOnly ==
  last.op = "get" =>
    /\ last.found => (last.had /\ last.at - last.ts < ttl)
    /\ (last.had /\ last.at - last.ts >= ttl) =>
         (~last.found /\ ~HasKey(cache, last.key))

C4_Witness ==
  /\ last.op = "get" /\ last.had
  /\ last.at - last.ts = ttl
  /\ ~last.found

\* C6: for every client the acquire calls admitted within any window of
\* length W number at most burst + W*rate + 1 (in units of 1/Den token).
C6_WindowBound ==
  \A c \in Clients : \A i, j \in 1..Len(admits[c]) :
    i <= j =>
      (j - i + 1) * Den
        <= burst * Den + (admits[c][j] - admits[c][i]) * RateNum + Den

C6_Witness ==
  \E c \in Clients : \E i, j \in 1..Len(admits[c]) :
    /\ i < j /\ admits[c][i] < admits[c][j]
    /\ (j - i + 1) * Den = burst * Den + (admits[c][j] - admits[c][i]) * RateNum
    /\ last.op = "acquire" /\ last.client = c /\ ~last.allowed

AdmitsAt(c, t) == Cardinality({i \in 1..Len(admits[c]) : admits[c][i] = t})

\* C10: acquire is the token-bucket step (a new client starts with burst
\* tokens, else min(burst, old + elapsed*rate); >= 1 token admits and removes
\* one, else denied with wait (1 - tokens)/rate); so a new client is admitted
\* exactly burst times at its first instant and then denied, and a client
\* below one token is admitted once the refill makes exactly one token.
C10_TokenBucketStep ==
  /\ last.op = "acquire" =>
       LET c == last.client
           refilled == IF last.new THEN burst * Den
                       ELSE Min(burst * Den, last.old + (last.at - last.prev) * RateNum)
       IN /\ last.allowed <=> refilled >= Den
          /\ last.allowed => tokens[c] = refilled - Den /\ last.wait_num = 0
          /\ ~last.allowed => tokens[c] = refilled /\ last.wait_num = Den - refilled
          /\ rlast[c] = last.at
          /\ (~last.new /\ last.old < Den
                /\ last.old + (last.at - last.prev) * RateNum = Den) => last.allowed
          /\ (~last.allowed /\ Len(admits[c]) > 0 /\ last.at = admits[c][1])
               => AdmitsAt(c, last.at) = burst
  /\ \A c \in Clients :
       Len(admits[c]) > 0 => AdmitsAt(c, admits[c][1]) <= burst

C10_Witness ==
  /\ last.op = "acquire" /\ ~last.new /\ last.allowed
  /\ last.old < Den
  /\ last.old + (last.at - last.prev) * RateNum = Den
  /\ AdmitsAt(last.client, admits[last.client][1]) = burst

RECURSIVE IsPrefix(_, _)
IsPrefix(s, t) ==
  s = <<>> \/ (t # <<>> /\ Head(s) = Head(t) /\ IsPrefix(Tail(s), Tail(t)))

\* C7: a valid JSON array of N strings, cut into chunks in any way and fed in
\* order to one parser, yields over all feed calls exactly the N decoded
\* strings in array order.
C7_ChunkedArrayParsed ==
  last.op \in {"none", "feed"} =>
    /\ IsPrefix(emitted, expected)
    /\ parser.items_yielded = Len(emitted)
    /\ rest = <<>> => emitted = expected

C7_Witness ==
  /\ last.op = "feed" /\ rest = <<>>
  /\ Len(expected) = 2 /\ expected[1] = <<BSL>>
  /\ emitted = expected
  /\ cutEsc
  /\ last.items = <<expected[2]>>

\* ------------------------------------------------------ translate, end to end
\* the request that arrived in this step
Arrival ==
  IF done'.pc = "done" THEN done'
  ELSE reqs'[CHOOSE r \in Reqs : reqs[r].pc = "idle" /\ reqs'[r].pc # "idle"]

\* the requests in flight and the one that completed in the last step
Requests == {reqs[r] : r \in InFlight} \cup (IF done.pc = "done" THEN {done} ELSE {})

\* C1: concurrently running translate requests with the same fingerprint
\* that all miss the cache make exactly one upstream call between them (the
\* others return that call's result).
C1_OneCallPerFingerprint ==
  \A r, s \in InFlight :
    (r # s /\ reqs[r].key # 0 /\ reqs[r].key = reqs[s].key
       /\ ~reqs[r].hit /\ ~reqs[s].hit)
      => reqs[r].ncalls + reqs[s].ncalls = 1

\* C2: the upstream calls in progress (streaming, batch and the batch
\* quality retry together) never number more than max_concurrent_api_calls.
C2_UpstreamCallsBounded == Cardinality(InFlight) <= max_concurrent_api_calls

\* C5: a request that arrives while is_locked_out reports its client locked
\* makes no upstream call, is answered with status 429 and the remaining
\* lockout time, and reads neither the rate limiter nor the cache.
C5_LockedOutAnsweredLocally ==
  [][arrived' = arrived + 1 =>
       LET q == Arrival
           c == q.client
       IN IsLockedOut(failures, lockouts, c, now).locked =>
            /\ q.pc = "done" /\ q.ncalls = 0
            /\ InFlight' = InFlight
            /\ q.resp = [status |-> 429, type |-> "AUTH_LOCKED_OUT",
                         remaining |-> lockouts[c] - now]
            /\ UNCHANGED <<tokens, rlast, cache, hits, misses>>]_vars

C5_Witness ==
  /\ done.pc = "done" /\ done.sawLock
  /\ done.resp.status = 429 /\ done.resp.remaining > 0
  /\ done.client \in DOMAIN tokens /\ tokens[done.client] >= Den

\* C8: a request that reaches the cache lookup with an unexpired entry for
\* its texts, language and model makes no upstream call and answers from the
\* cache: in batch mode one envelope with the serialized cached array and
\* cached=true, in streaming mode one frame per cached item with indexes
\* 0..n-1 in order and cached=true, then a done frame with total=n.
C8_CacheHitServedLocally ==
  [][arrived' = arrived + 1 =>
       LET q == Arrival
           c == q.client
           k == q.key
       IN (/\ k # 0
           /\ ~IsLockedOut(failures, lockouts, c, now).locked
           /\ Acquire(tokens, rlast, c, now).allowed
           /\ HasKey(cache, k)
           /\ now - Entry(cache, k).ts < ttl) =>
            LET data == Entry(cache, k).data
                n == Len(data)
            IN /\ q.pc = "done" /\ q.ncalls = 0
               /\ InFlight' = InFlight
               /\ ~q.stream =>
                    q.resp = [status |-> 200, content |-> Dumps(data), cached |-> TRUE]
               /\ q.stream =>
                    /\ Len(q.frames) = n + 1
                    /\ \A i \in 1..n :
                         q.frames[i] = [index |-> i - 1, translation |-> data[i],
                                        cached |-> TRUE]
                    /\ q.frames[n + 1] = [done |-> TRUE, total |-> n, cached |-> TRUE]]_vars

C8_Witness ==
  /\ done.pc = "done" /\ done.hit /\ done.stream
  /\ done.ncalls = 0
  /\ Len(done.cached) = 2 /\ Len(done.frames) = 3

\* C9: once a client's failures within window_seconds reach max_attempts a
\* lockout expiry is set, and every request of that client arriving before
\* that expiry is rejected, whatever other requests of the client are still
\* in flight.
C9_RejectedUntilExpiry ==
  /\ \A c \in DOMAIN failures :
       Len(failures[c]) >= max_attempts => c \in DOMAIN lockedUntil
  /\ \A q \in Requests :
       q.underLock => (q.pc = "done" /\ q.ncalls = 0 /\ q.resp.status = 429)

\* ------------------------------------------------------ AuthFailureLimiter
\* the times in s that are less than window_seconds before t
Recent(s, t) ==
  LET InsideWindow(ts) == t - ts < window_seconds
  IN SelectSeq(s, InsideWindow)

\* C11: record_failure drops the stored failure times that are
\* window_seconds old or older, adds the current time, and returns (true, 0)
\* with lockout expiry now + lockout_seconds exactly when the remaining
\* count is at least max_attempts, else (false, max_attempts - count); with
\* max_attempts - 1 failures inside the window the next failure locks, and a
\* lockout is only ever set by max_attempts failures inside one window.
C11_RecordFailureStep ==
  /\ last.op = "record_failure" =>
       LET c == last.client
           t == last.at
           recent == Recent(Stored(last.failures, c), t)
           count == Len(recent) + 1
       IN /\ c \in DOMAIN failures /\ failures[c] = recent \o <<t>>
          /\ last.locked <=> count >= max_attempts
          /\ last.locked =>
               /\ last.attempts_left = 0
               /\ c \in DOMAIN lockouts /\ lockouts[c] = t + lockout_seconds
          /\ ~last.locked =>
               /\ last.attempts_left = max_attempts - count
               /\ lockouts = last.lockouts
          /\ Len(recent) = max_attempts - 1 => last.locked
  /\ \A c \in DOMAIN lockouts :
       LET t == lockouts[c] - lockout_seconds
       IN Cardinality({i \in 1..Len(flog[c]) :
                         flog[c][i] <= t /\ t - flog[c][i] < window_seconds})
            >= max_attempts

C11_Witness ==
  /\ last.op = "record_failure" /\ last.locked
  /\ Len(Recent(Stored(last.failures, last.client), last.at)) = max_attempts - 1
  /\ Len(Stored(last.failures, last.client)) > max_attempts - 1

\* C12: after record_success(client), whatever record_failure calls came
\* before, the client has no stored failures and no lockout: is_locked_out
\* returns (false, 0), the next record_failure counts as the first, and the
\* state of every other client is unchanged.
C12_RecordSuccessClears ==
  last.op = "record_success" =>
    LET c == last.client IN
      /\ c \notin DOMAIN failures /\ c \notin DOMAIN lockouts
      /\ ~IsLockedOut(failures, lockouts, c, now).locked
      /\ IsLockedOut(failures, lockouts, c, now).remaining = 0
      /\ RecordFailure(failures, lockouts, c, now).failures[c] = <<now>>
      /\ RecordFailure(failures, lockouts, c, now).attempts_left = max_attempts - 1
      /\ \A d \in Clients \ {c} :
           /\ d \in DOMAIN failures <=> d \in DOMAIN last.failures
           /\ d \in DOMAIN lockouts <=> d \in DOMAIN last.lockouts
           /\ d \in DOMAIN failures => failures[d] = last.failures[d]
           /\ d \in DOMAIN lockouts => lockouts[d] = last.lockouts[d]

C12_Witness ==
  /\ last.op = "record_success"
  /\ last.client \in DOMAIN last.lockouts
  /\ last.lockouts[last.client] > last.at
  /\ Len(Stored(last.failures, last.client)) >= max_attempts
  /\ \E d \in Clients \ {last.client} : d \in DOMAIN lockouts

\* ------------------------------------------------------- auth accounting
\* the requests whose upstream call was answered (or failed) in this step
Answered == {r \in Reqs : reqs[r].pc = "upstream" /\ reqs'[r] # reqs[r]}

\* what became of request r in this step
After(r) == IF reqs'[r].pc = "idle" THEN done' ELSE reqs'[r]

\* the upstream answered q's call with 401 or 403
AuthError(q) == q.pc = "done" /\ q.resp.status \in {401, 403}

\* the upstream answered q's call with 200
Upstream200(q) ==
  \/ q.pc \in {"retry", "streaming"}
  \/ q.pc = "done" /\ q.resp.status = 200

\* a 401 or 403 answer is one record_failure for the request's client, a
\* 200 answer is a record_success, and no other step records a failure
AuthAccounted ==
  /\ \A r \in Answered :
       LET c == reqs[r].client
           q == After(r)
       IN /\ AuthError(q) =>
               failures' = Put(failures, c, Recent(Stored(failures, c), now) \o <<now>>)
          /\ Upstream200(q) =>
               /\ c \notin DOMAIN failures' /\ c \notin DOMAIN lockouts'
               /\ q.cleared = Len(Stored(failures, c))
  /\ (~\E r \in Answered : AuthError(After(r))) =>
       \A c \in Clients : Len(Stored(failures', c)) <= Len(Stored(failures, c))

StoredKeys(c) == {c[i].key : i \in 1..Len(c)}
Precedes(c, a, b) ==
  \E i, j \in 1..Len(c) : i < j /\ c[i].key = a /\ c[j].key = b

\* this step is a set call, a get call (of the key last' names)
IsSetStep == now' = now /\ hits' = hits /\ misses' = misses /\ last'.op = "set"
IsGetStep == hits' + misses' = hits + misses + 1 /\ last'.op = "get"

\* C14: a set(k, v) followed by a get(k) less than ttl later, k not evicted
\* in between, returns v; a set(k, v1) followed by set(k, v2) leaves one
\* entry for k, holding v2 with a fresh insertion time.  (An entry is only
\* ever written by set, with the value and time of that call, no other call
\* alters it, and get returns the data of the entry it finds unexpired.)
C14_SetThenGet ==
  [][/\ IsSetStep =>
          LET k == last'.key IN
            /\ Cardinality({i \in 1..Len(cache') : cache'[i].key = k}) = 1
            /\ Entry(cache', k) = [key |-> k, data |-> last'.data, ts |-> now]
     /\ \A k \in StoredKeys(cache') :
          (IsSetStep /\ last'.key = k)
            \/ (k \in StoredKeys(cache) /\ Entry(cache', k) = Entry(cache, k))
     /\ IsGetStep =>
          LET k == last'.key IN
            (k \in StoredKeys(cache) /\ now - Entry(cache, k).ts < ttl) =>
              (last'.found /\ last'.data = Entry(cache, k).data)]_vars

C14_Witness ==
  /\ last.op = "get" /\ last.found
  /\ last.at - last.ts = ttl - 1
  /\ Len(cache) = max_size
  /\ Entry(cache, last.key).data = last.data

\* C15: eviction is by access recency: the entry removed on overflow is the
\* one whose most recent successful get or set is oldest, so an entry read
\* by get after a later-inserted entry was written outlives that entry.
\* (The key a set or a successful get names becomes the most recent; the
\* order of the others does not change; a set removes only keys that stood
\* before every key it keeps.)
C15_EvictsLeastRecentlyUsed ==
  [][(IsSetStep \/ IsGetStep) =>
       LET acc == last'.key
           kept == StoredKeys(cache') \ {acc}
           gone == StoredKeys(cache) \ StoredKeys(cache')
       IN /\ kept \subseteq StoredKeys(cache)
          /\ \A a, b \in kept : Precedes(cache', a, b) <=> Precedes(cache, a, b)
          /\ acc \in StoredKeys(cache') => cache'[Len(cache')].key = acc
          /\ IsSetStep => \A x \in gone \ {acc}, y \in kept : Precedes(cache, x, y)
          /\ IsGetStep => gone \subseteq {acc}]_vars

C15_Witness ==
  /\ last.op = "set" /\ last.full /\ ~last.had
  /\ \E x \in last.dropped : \E i \in 1..Len(cache) :
       cache[i].key # last.key /\ cache[i].ts < x.ts

\* C16: when the cache holds exactly max_size entries the next set evicts
\* exactly one entry: a set of a key that is not stored removes the least
\* recently used entry and leaves the size at max_size; a set of a stored
\* key removes none.
C16_FullCacheEvictsOne ==
  [][(IsSetStep /\ Len(cache) = max_size) =>
       LET k == last'.key IN
         /\ Len(cache') = max_size
         /\ k \notin StoredKeys(cache) =>
              /\ StoredKeys(cache) \ StoredKeys(cache') = {cache[1].key}
              /\ \A i \in 1..(max_size - 1) : cache'[i] = cache[i + 1]
         /\ k \in StoredKeys(cache) => StoredKeys(cache') = StoredKeys(cache)]_vars

C16_Witness ==
  /\ last.op = "set" /\ last.full /\ ~last.had
  /\ Cardinality(last.dropped) = 1
  /\ Len(cache) = max_size
  /\ hits > 0

\* ------------------------------------------------- StreamingJSONArrayParser
\* how many characters of the text the parser has been fed
Fed == Len(text) - Len(rest)

RECURSIVE ClosedFrom(_, _, _, _)
\* the strings of JSON text t whose closing quote stands among the
\* characters i..n, inStr telling whether t[i] lies inside a string
ClosedFrom(t, i, n, inStr) ==
  IF i > n THEN 0
  ELSE IF ~inStr
       THEN ClosedFrom(t, i + 1, n, t[i] = QUOTE)
       ELSE IF t[i] = BSL THEN ClosedFrom(t, i + 2, n, TRUE)
            ELSE IF t[i] = QUOTE THEN 1 + ClosedFrom(t, i + 1, n, FALSE)
                 ELSE ClosedFrom(t, i + 1, n, TRUE)

\* the strings whose closing quote is among the first n characters of t
Closed(t, n) == ClosedFrom(t, 1, n, FALSE)

RECURSIVE EscapeOpenFrom(_, _, _, _)
\* character n of t is a backslash inside a string whose escaped character
\* is character n + 1
EscapeOpenFrom(t, i, n, inStr) ==
  IF i > n THEN FALSE
  ELSE IF ~inStr
       THEN EscapeOpenFrom(t, i + 1, n, t[i] = QUOTE)
       ELSE IF t[i] = BSL THEN (i = n \/ EscapeOpenFrom(t, i + 2, n, TRUE))
            ELSE EscapeOpenFrom(t, i + 1, n, t[i] # QUOTE)

EscapeOpen(t, n) == EscapeOpenFrom(t, 1, n, FALSE)

\* C17: feed returns a string only in the call whose chunk delivers that
\* string's closing unescaped quote: no earlier call returns it, exactly
\* that call does, and no later call does.
C17_ReturnedAtClosingQuote ==
  /\ Len(emitted) = Closed(text, Fed)
  /\ IsPrefix(emitted, expected)
  /\ last.op = "feed" =>
       LET before == Closed(text, Fed - last.n)
       IN last.items = SubSeq(expected, before + 1, Closed(text, Fed))

C17_Witness ==
  /\ last.op = "feed" /\ last.n = 1
  /\ Len(expected) = 2 /\ Len(expected[1]) = 2
  /\ last.items = <<expected[1]>>
  /\ emitted = <<expected[1]>>

\* C18: a quote preceded by an escaping backslash does not end the string
\* and the returned item is the decoded string; a chunk that ends directly
\* after a backslash inside a string yields nothing of that string (nothing
\* at all when no earlier string closes in the chunk), and the string is
\* returned once a later chunk delivers the escaped character and the
\* closing quote.
C18_EscapedQuoteInsideString ==
  last.op = "feed" =>
    /\ EscapeOpen(text, Fed) =>
         /\ Len(emitted) < Len(expected)
         /\ Len(emitted) = Closed(text, Fed)
         /\ Closed(text, Fed - last.n) = Closed(text, Fed) => last.items = <<>>
    /\ \A i \in 1..Len(emitted) : i <= Len(expected) /\ emitted[i] = expected[i]
    /\ rest = <<>> => Len(emitted) = Len(expected)

C18_Witness ==
  /\ last.op = "feed" /\ rest = <<>>
  /\ expected = << <<QUOTE>> >>
  /\ cutEsc
  /\ last.items = expected /\ emitted = expected

\* C19: a parser fed [] returns no item, and once the closing ] stands at
\* the head of the buffer the parser is terminal: every later feed call,
\* with any chunk, returns no item.
C19_TerminalAfterBracket ==
  [][/\ expected = <<>> => (last'.items = <<>> /\ emitted' = <<>>)
     /\ rest' = <<>> =>
          (parser'.in_array /\ parser'.buffer # <<>> /\ Head(parser'.buffer) = "]")
     /\ (parser.in_array /\ parser.buffer # <<>> /\ Head(parser.buffer) = "]") =>
          /\ last'.items = <<>> /\ emitted' = emitted
          /\ parser'.items_yielded = parser.items_yielded
          /\ parser'.in_array /\ Head(parser'.buffer) = "]"]_vars

C19_Witness ==
  /\ expected = <<>> /\ rest = <<>> /\ emitted = <<>>
  /\ last.op = "feed" /\ last.n = 5 /\ last.items = <<>>
  /\ Len(parser.buffer) > MaxTail

\* ------------------------------------------------------ streaming response
\* the frames of sequence fs that carry an item
ItemFramesOf(fs) ==
  LET IsItem(f) == "index" \in DOMAIN f
  IN SelectSeq(fs, IsItem)

\* C20: in a streaming response the item frames follow the order in which
\* the parser emitted the items from the upstream: the k-th item frame
\* carries index k-1 (0, 1, 2, ... without gaps or repeats) and the k-th item
\* of the upstream array, and the done frame's total equals the number of
\* item frames sent before it.
C20_FramesInUpstreamOrder ==
  \A q \in Requests :
    (q.stream /\ q.ncalls = 1 /\ q.resp.status = 200) =>
      LET fs == q.frames
          its == ItemFramesOf(fs)
      IN /\ Len(its) = Len(q.all)
         /\ \A k \in 1..Len(its) :
              /\ fs[k] = its[k]
              /\ its[k].index = k - 1
              /\ its[k].translation = q.all[k]
         /\ IsPrefix(q.all, LoadsList(q.content))
         /\ \A i \in 1..Len(fs) :
              "done" \in DOMAIN fs[i] =>
                (i = Len(fs) /\ fs[i].total = i - 1 /\ fs[i].total = Len(its))

C20_Witness ==
  /\ done.pc = "done" /\ done.stream /\ done.ncalls = 1
  /\ Len(done.frames) = 3
  /\ done.frames[2] = [index |-> 1, translation |-> B]
  /\ done.frames[3] = [done |-> TRUE, total |-> 2]

\* ------------------------------------------------------- what the cache holds
\* C21: the pipeline stores a result only when the number of translations
\* equals the number of requested texts, on the batch path and on the
\* streaming path: every cache entry holds exactly as many translations as
\* its key has texts, and a request that completes with another number of
\* translations leaves no entry written by it.
C21_StoredCountsMatch ==
  /\ \A i \in 1..Len(cache) :
       cache[i].key # 0 /\ Len(cache[i].data) = NTexts(cache[i].key)
  /\ (done.pc = "done" /\ done.ncalls > 0 /\ done.resp.status = 200
        /\ done.stream /\ Len(done.all) # NTexts(done.key)) =>
       ~(HasKey(cache, done.key) /\ Entry(cache, done.key).ts = now
           /\ Entry(cache, done.key).data = done.all)

C21_Witness ==
  /\ done.pc = "done" /\ done.stream /\ done.ncalls = 1
  /\ Len(done.all) = 2
  /\ HasKey(cache, 2) /\ Entry(cache, 2).data = done.all
  /\ HasKey(cache, 1) /\ Entry(cache, 1).data = <<B>>

\* ------------------------------------------------------ streams that stop short
\* the streaming requests whose upstream stream stopped in this step after
\* fewer items than were requested
StoppedShort ==
  {r \in Reqs : /\ reqs[r].pc = "streaming" /\ reqs'[r].pc = "idle"
                /\ Len(reqs[r].all) < NTexts(reqs[r].key)}

\* the item frames sent so far are kept, in place
FramesKept(r) ==
  /\ Len(done'.frames) = Len(reqs[r].frames) + 1
  /\ SubSeq(done'.frames, 1, Len(reqs[r].frames)) = reqs[r].frames
  /\ reqs[r].frames = ItemFrames(reqs[r].all, 0, FALSE)

\* C22 (as amended): when the upstream stream stops after the parser has
\* emitted fewer items than were requested, the item frames already sent are
\* kept and the cache is not populated for that request; a stream that
\* breaks with an exception ends with one error frame and no done frame, a
\* stream that ends normally ends with a done frame whose total is the
\* number of items emitted.
C22_ShortStreamKeepsFrames ==
  [][\A r \in StoppedShort :
       LET f == done'.frames[Len(done'.frames)] IN
         /\ FramesKept(r)
         /\ UNCHANGED cacheVars
         /\ \/ DOMAIN f = {"error"}
            \/ f = [done |-> TRUE, total |-> Len(reqs[r].all)]]_vars

C22_Witness ==
  /\ done.pc = "done" /\ done.stream /\ done.ncalls = 1 /\ done.key = 2
  /\ done.frames = <<[index |-> 0, translation |-> A], ErrorFrame("UNKNOWN_ERROR")>>
  /\ ~HasKey(cache, 2)

\* C22 (as stated): when the upstream stream ends or disconnects after fewer
\* items than were requested, the item frames already sent are kept, the
\* response stream ends without a done frame, and the cache is not populated.
C22_ShortStreamEndsWithoutDone ==
  [][\A r \in StoppedShort :
       /\ FramesKept(r)
       /\ UNCHANGED cacheVars
       /\ \A i \in 1..Len(done'.frames) : "done" \notin DOMAIN done'.frames[i]]_vars

\* ------------------------------------------------------- the batch envelope
\* the batch requests whose upstream call (first or retry) was answered in
\* this step and that return an envelope with status 200
BatchAnswered200 ==
  {r \in Reqs : /\ reqs[r].pc \in {"upstream", "retry"} /\ reqs'[r].pc = "idle"
                /\ ~reqs[r].stream /\ done'.resp.status = 200}

\* C23 (as amended): on a batch request that misses the cache and gets a
\* successful upstream response, the content of the returned envelope is
\* the string the upstream produced, unchanged, unless the quality retry
\* was merged; then it is the serialization of the translations with the
\* retried items put in place of the incomplete ones (the array the cache
\* stores).
C23_ContentUnchangedUnlessMerged ==
  [][\A r \in BatchAnswered200 :
       LET q == done'
           p == reqs[r]
       IN IF p.pc = "retry" /\ q.all # p.all
          THEN /\ q.resp.content = Dumps(q.all)
               /\ Len(q.all) = Len(p.all)
               /\ \A i \in 1..Len(p.all) :
                    (\A j \in 1..Len(p.idx) : p.idx[j] # i) => q.all[i] = p.all[i]
               /\ Entry(cache', q.key).data = q.all
          ELSE /\ q.resp.content = q.content
               /\ p.pc = "retry" => q.content = p.content]_vars

C23_Witness ==
  /\ done.pc = "done" /\ ~done.stream /\ done.ncalls = 2
  /\ done.resp.status = 200
  /\ done.content = Dumps(<<U>>)
  /\ done.resp.content = Dumps(<<B>>)

\* C23 (as stated): on a batch request that misses the cache and gets a
\* successful upstream response, the content of the returned envelope is
\* the string the upstream produced, unchanged, for every outcome of the
\* validation and retry.
C23_ContentUnchanged ==
  (done.pc = "done" /\ ~done.stream /\ done.ncalls > 0 /\ done.resp.status = 200)
    => done.resp.content = done.content

\* --------------------------------------------------- payloads without texts
\* the lockout check and the rate limiter let a request of client c through
Admitted(c) ==
  /\ ~IsLockedOut(failures, lockouts, c, now).locked
  /\ Acquire(tokens, rlast, c, now).allowed

\* C24: a request whose user payload does not parse as a JSON array is
\* treated as having no extractable texts: none of its steps reads or writes
\* the cache (contents and hit/miss counters stay as they are), and once it
\* is past the lockout check and the rate limiter it is forwarded to the
\* upstream.
C24_NoTextsBypassesCache ==
  [][/\ (arrived' = arrived + 1 /\ Arrival.key = 0) =>
          /\ UNCHANGED cacheVars
          /\ Admitted(Arrival.client) =>
               (Arrival.pc = "upstream" /\ Arrival.ncalls = 1)
     /\ \A r \in InFlight :
          (reqs[r].key = 0 /\ reqs'[r] # reqs[r]) => UNCHANGED cacheVars]_vars

C24_Witness ==
  /\ done.pc = "done" /\ done.key = 0 /\ done.stream /\ done.ncalls = 1
  /\ done.all = <<A>>
  /\ done.frames[Len(done.frames)] = [done |-> TRUE, total |-> 1]
  /\ Len(cache) = 1 /\ hits = 1 /\ misses = 1

\* ------------------------------------------------------ the order of checks
\* C25: every translate request runs lockout check, rate-limit acquire,
\* text extraction, cache lookup and upstream call in this order: a request
\* the lockout check rejects consumes no rate-limit token, and a request the
\* rate limiter denies reads no cache entry, changes no cache counter and
\* makes no upstream call; no request reaches a later check without having
\* passed the earlier ones.
C25_ChecksInOrder ==
  [][arrived' = arrived + 1 =>
       LET q == Arrival
           c == q.client
           lo == IsLockedOut(failures, lockouts, c, now)
           acq == Acquire(tokens, rlast, c, now)
       IN /\ lo.locked =>
               /\ UNCHANGED <<tokens, rlast>>
               /\ ~q.usedRate /\ ~q.usedCache /\ q.ncalls = 0
          /\ (~lo.locked /\ ~acq.allowed) =>
               /\ UNCHANGED cacheVars
               /\ q.pc = "done" /\ q.ncalls = 0 /\ InFlight' = InFlight
               /\ q.usedRate /\ ~q.usedCache
               /\ q.resp.status = 429 /\ q.resp.type = "RATE_LIMIT_EXCEEDED"
               /\ tokens' = acq.tokens /\ rlast' = acq.rlast
          /\ q.usedCache => (q.usedRate /\ ~lo.locked /\ acq.allowed)
          /\ q.ncalls > 0 =>
               /\ q.usedRate /\ ~lo.locked /\ acq.allowed
               /\ q.key # 0 => (q.usedCache /\ ~q.hit)]_vars

C25_Witness ==
  /\ done.pc = "done" /\ done.resp.status = 429
  /\ done.resp.type = "RATE_LIMIT_EXCEEDED"
  /\ done.hadFresh /\ ~done.usedCache /\ done.ncalls = 0
  /\ hits > 0

\* --------------------------- RateLimiter.acquire, statement by statement
\* Tasks call acquire concurrently.  A task may be suspended at
\* `async with self._lock`; the model also lets the other tasks run between
\* the statements of the body, which a scheduler that preempts would allow.

\* variant of LockFree under which a task never waits for the lock
LockFreeAlways(holder) == TRUE

\* asyncio.Lock: `async with self._lock` goes on only when no task is inside
LockFree(holder) == holder = 0

\* the bucket level a sequential acquire of client c at time t would find
\* after its refill
LevelAt(tok, lst, c, t) ==
  IF c \in DOMAIN tok THEN Refill(tok[c], t - lst[c]) ELSE burst * Den

\* a task calls limiter.acquire(c) and reaches `async with self._lock`
AcquireCall(r) ==
  /\ arrived < MaxArrivals
  /\ reqs[r].pc = "idle"
  /\ \A q \in Reqs : q < r => reqs[q].pc # "idle"
  /\ \E c \in Clients :
       reqs' = [reqs EXCEPT ![r] = [pc |-> "lock", client |-> c,
                                    waited |-> locks.rate # 0]]
  /\ arrived' = arrived + 1
  /\ done' = IdleReq
  /\ UNCHANGED <<now, cacheVars, rateVars, authVars, parseVars, lockedUntil, locks, last>>

\* the task gets the lock, reads the clock and creates the client's bucket
\* when there is none; `last` keeps the limiter a sequential execution of
\* the calls, in the order of entry, would have, and for each client the
\* instant of its latest call, the level found by the first call of that
\* instant and the number of calls since
AcquireEnter(r) ==
  /\ reqs[r].pc = "lock"
  /\ LockFree(locks.rate)
  /\ LET c == reqs[r].client
         isNew == c \notin DOMAIN tokens
         g == Acquire(last.tokens, last.rlast, c, now)
         same == c \in DOMAIN last.inst /\ last.inst[c].at = now
     IN /\ locks' = [locks EXCEPT !.rate = r]
        /\ tokens' = IF isNew THEN Put(tokens, c, burst * Den) ELSE tokens
        /\ rlast' = IF isNew THEN Put(rlast, c, now) ELSE rlast
        /\ reqs' = [reqs EXCEPT ![r] =
                      [pc |-> "refill", client |-> c, waited |-> reqs[r].waited,
                       t |-> now,
                       exp |-> [allowed |-> g.allowed, wait_num |-> g.wait_num]]]
        /\ last' = [op |-> "conc", tokens |-> g.tokens, rlast |-> g.rlast,
                    inst |-> Put(last.inst, c,
                               IF same THEN [last.inst[c] EXCEPT !.calls = @ + 1]
                               ELSE [at |-> now, calls |-> 1,
                                     level |-> LevelAt(last.tokens, last.rlast, c, now)])]
  /\ done' = IdleReq
  /\ UNCHANGED <<now, cacheVars, admits, authVars, parseVars, arrived, lockedUntil>>

\* elapsed = now - self._last[client]; the refill; self._last[client] = now
AcquireRefill(r) ==
  /\ reqs[r].pc = "refill"
  /\ LET c == reqs[r].client
         t == reqs[r].t
     IN /\ tokens' = Put(tokens, c, Refill(tokens[c], t - rlast[c]))
        /\ rlast' = Put(rlast, c, t)
  /\ reqs' = [reqs EXCEPT ![r].pc = "take"]
  /\ done' = IdleReq
  /\ UNCHANGED <<now, cacheVars, admits, authVars, parseVars, arrived, lockedUntil,
                 locks, last>>

\* the test for one token, the result, and the release of the lock
AcquireTake(r) ==
  /\ reqs[r].pc = "take"
  /\ LET c == reqs[r].client
         ok == Admit(tokens[c])
     IN /\ tokens' = IF ok THEN Put(tokens, c, tokens[c] - Den) ELSE tokens
        /\ admits' = IF ok THEN [admits EXCEPT ![c] = Append(@, reqs[r].t)] ELSE admits
        /\ SetReq(r, [pc |-> "done", client |-> c, waited |-> reqs[r].waited,
                      t |-> reqs[r].t, exp |-> reqs[r].exp,
                      allowed |-> ok,
                      wait_num |-> IF ok THEN 0 ELSE Den - tokens[c]])
  /\ locks' = [locks EXCEPT !.rate = 0]
  /\ UNCHANGED <<now, cacheVars, rlast, authVars, parseVars, arrived, lockedUntil, last>>

ConcTick ==
  /\ now < MaxTime
  /\ now' = now + 1
  /\ UNCHANGED <<cacheVars, rateVars, authVars, parseVars, pipeVars, last>>

InitConc ==
  /\ now = 0
  /\ CacheInit /\ RateInit /\ AuthInit /\ ParserIdle /\ PipeInit
  /\ last = [op |-> "conc", tokens |-> EmptyMap, rlast |-> EmptyMap, inst |-> EmptyMap]

NextConc ==
  \/ ConcTick
  \/ \E r \in Reqs : AcquireCall(r)
  \/ \E r \in Reqs : AcquireEnter(r)
  \/ \E r \in Reqs : AcquireRefill(r)
  \/ \E r \in Reqs : AcquireTake(r)

SpecConc == InitConc /\ [][NextConc]_vars

\* the clients with a call between its entry and its return
InBody == {reqs[r].client : r \in {x \in Reqs : reqs[x].pc \in {"refill", "take"}}}

\* C26: concurrent acquire calls are linearized: for every interleaving of
\* the calling tasks, each call returns what it returns in the sequential
\* execution of the calls in their order of entry, the token counts and
\* refill times are those of that execution whenever no call is in
\* progress, and of N calls of a client made at one instant against a bucket
\* of T tokens exactly min(N, floor(T)) are admitted.
C26_AcquireLinearized ==
  /\ locks.rate = 0 => (tokens = last.tokens /\ rlast = last.rlast)
  /\ done.pc = "done" =>
       (done.allowed = done.exp.allowed /\ done.wait_num = done.exp.wait_num)
  /\ \A c \in DOMAIN last.inst :
       c \notin InBody =>
         AdmitsAt(c, last.inst[c].at)
           = Min(last.inst[c].calls, last.inst[c].level \div Den)

C26_Witness ==
  /\ done.pc = "done" /\ done.waited /\ ~done.allowed
  /\ last.inst[done.client].calls = 3
  /\ last.inst[done.client].level = 2 * Den + 1
  /\ AdmitsAt(done.client, last.inst[done.client].at) = 2

\* ------------------------------------- the pipeline with its locks, await by await
\* Every component method is `async with self._lock: <body>` and no body
\* awaits.  A request is either waiting at a method's lock, inside the
\* method (holding the lock, about to run the body and release), or waiting
\* for the upstream.

\* the component whose lock each method takes
LockOf ==
  [is_locked_out |-> "auth", record_success |-> "auth", record_failure |-> "auth",
   acquire |-> "rate", get |-> "cache", set |-> "cache"]

\* the positions at which a request waits for the upstream: the first call,
\* the quality retry, and the lines of an open stream
Awaiting == {"upstream", "retry", "streaming"}

\* request r goes on to position pc, outside any method; at "done" its
\* response is complete and it leaves its slot
Goto(r, pc) ==
  IF pc = "done"
  THEN SetReq(r, [pc |-> "done", client |-> reqs[r].client])
  ELSE SetReq(r, [reqs[r] EXCEPT !.pc = pc, !.inside = FALSE])

\* __aexit__ of `async with self._lock`
Release(m) == locks' = [locks EXCEPT ![m] = 0]

\* translate starts: await auth_limiter.is_locked_out(client_id)
LockArrive(r) ==
  /\ arrived < MaxArrivals
  /\ reqs[r].pc = "idle"
  /\ \A q \in Reqs : q < r => reqs[q].pc # "idle"
  /\ \E k \in {0, 1}, st \in BOOLEAN :
       reqs' = [reqs EXCEPT ![r] = [pc |-> "is_locked_out", inside |-> FALSE,
                                    client |-> "c1", key |-> k, stream |-> st,
                                    open |-> FALSE]]
  /\ arrived' = arrived + 1
  /\ done' = IdleReq
  /\ UNCHANGED <<now, cacheVars, rateVars, authVars, parseVars, lockedUntil, locks, last>>

\* __aenter__ of `async with self._lock` in the method the request is at
LockEnter(r) ==
  /\ reqs[r].pc \in DOMAIN LockOf
  /\ ~reqs[r].inside
  /\ LockFree(locks[LockOf[reqs[r].pc]])
  /\ locks' = [locks EXCEPT ![LockOf[reqs[r].pc]] = r]
  /\ reqs' = [reqs EXCEPT ![r].inside = TRUE]
  /\ done' = IdleReq
  /\ UNCHANGED <<now, cacheVars, rateVars, authVars, parseVars, arrived, lockedUntil, last>>

\* the body of is_locked_out and what translate does with the result
ExitIsLockedOut(r) ==
  /\ reqs[r].pc = "is_locked_out" /\ reqs[r].inside
  /\ LET lo == IsLockedOut(failures, lockouts, reqs[r].client, now) IN
       /\ failures' = lo.failures
       /\ lockouts' = lo.lockouts
       /\ Goto(r, IF Rejected(lo) THEN "done" ELSE "acquire")
  /\ Release("auth")
  /\ UNCHANGED <<now, cacheVars, rateVars, flog, parseVars, arrived, lockedUntil, last>>

\* the body of acquire and what translate does with the result
ExitAcquire(r) ==
  /\ reqs[r].pc = "acquire" /\ reqs[r].inside
  /\ LET acq == Acquire(tokens, rlast, reqs[r].client, now) IN
       /\ tokens' = acq.tokens
       /\ rlast' = acq.rlast
       /\ Goto(r, IF Denied(acq) THEN "done"
                  ELSE IF Extractable(reqs[r].key) THEN "get" ELSE "upstream")
  /\ Release("rate")
  /\ UNCHANGED <<now, cacheVars, admits, authVars, parseVars, arrived, lockedUntil, last>>

\* variant of ExitGet that keeps the cache lock over the upstream call of a miss
ExitGetHold(r) ==
  /\ reqs[r].pc = "get" /\ reqs[r].inside
  /\ LET g == CacheGet(cache, hits, misses, reqs[r].key, now) IN
       /\ cache' = g.cache /\ hits' = g.hits /\ misses' = g.misses
       /\ Goto(r, IF Hit(g) THEN "done" ELSE "upstream")
       /\ IF Hit(g) THEN Release("cache") ELSE UNCHANGED locks
  /\ UNCHANGED <<now, rateVars, authVars, parseVars, arrived, lockedUntil, last>>

\* the body of cache.get and what translate does with the result
ExitGet(r) ==
  /\ reqs[r].pc = "get" /\ reqs[r].inside
  /\ LET g == CacheGet(cache, hits, misses, reqs[r].key, now) IN
       /\ cache' = g.cache /\ hits' = g.hits /\ misses' = g.misses
       /\ Goto(r, IF Hit(g) THEN "done" ELSE "upstream")
  /\ Release("cache")
  /\ UNCHANGED <<now, rateVars, authVars, parseVars, arrived, lockedUntil, last>>

\* the upstream's status line arrives (or the call fails); on the streaming
\* path the stream stays open while record_success or record_failure runs
UpstreamStatus(r) ==
  /\ reqs[r].pc = "upstream"
  /\ \E out \in {"record_success", "record_failure", "done"} :
       IF out = "done" THEN Goto(r, out)
       ELSE SetReq(r, [reqs[r] EXCEPT !.pc = out, !.open = reqs[r].stream])
  /\ UNCHANGED <<now, cacheVars, rateVars, authVars, parseVars, arrived, lockedUntil,
                 locks, last>>

\* the body of record_failure; the error is returned
ExitRecordFailure(r) ==
  /\ reqs[r].pc = "record_failure" /\ reqs[r].inside
  /\ LET rf == RecordFailure(failures, lockouts, reqs[r].client, now) IN
       /\ failures' = rf.failures
       /\ lockouts' = rf.lockouts
  /\ Goto(r, "done")
  /\ Release("auth")
  /\ UNCHANGED <<now, cacheVars, rateVars, flog, parseVars, arrived, lockedUntil, last>>

\* the body of record_success; then the stream's lines are read, or the
\* batch answer is validated: retried, stored, or returned as it is
ExitRecordSuccess(r) ==
  /\ reqs[r].pc = "record_success" /\ reqs[r].inside
  /\ LET rs == RecordSuccess(failures, lockouts, reqs[r].client) IN
       /\ failures' = rs.failures
       /\ lockouts' = rs.lockouts
  /\ IF reqs[r].stream
     THEN Goto(r, "streaming")
     ELSE \E out \in (IF Extractable(reqs[r].key) THEN {"retry", "set"} ELSE {}) \cup {"done"} :
            Goto(r, out)
  /\ Release("auth")
  /\ UNCHANGED <<now, cacheVars, rateVars, flog, parseVars, arrived, lockedUntil, last>>

\* the upstream stream or the retry call ends: cache.set when the lengths
\* match, else (or on an exception) the response ends
UpstreamEnds(r) ==
  /\ reqs[r].pc \in {"streaming", "retry"}
  /\ \E out \in (IF Extractable(reqs[r].key) THEN {"set"} ELSE {}) \cup {"done"} :
       Goto(r, out)
  /\ UNCHANGED <<now, cacheVars, rateVars, authVars, parseVars, arrived, lockedUntil,
                 locks, last>>

\* the body of cache.set; the response is completed
ExitSet(r) ==
  /\ reqs[r].pc = "set" /\ reqs[r].inside
  /\ cache' = CacheSet(cache, reqs[r].key, <<A>>, now)
  /\ Goto(r, "done")
  /\ Release("cache")
  /\ UNCHANGED <<now, hits, misses, rateVars, authVars, parseVars, arrived,
                 lockedUntil, last>>

NextLocks ==
  \/ PipeTick
  \/ \E r \in Reqs : LockArrive(r)
  \/ \E r \in Reqs : LockEnter(r)
  \/ \E r \in Reqs : ExitIsLockedOut(r)
  \/ \E r \in Reqs : ExitAcquire(r)
  \/ \E r \in Reqs : ExitGet(r)
  \/ \E r \in Reqs : UpstreamStatus(r)
  \/ \E r \in Reqs : ExitRecordFailure(r)
  \/ \E r \in Reqs : ExitRecordSuccess(r)
  \/ \E r \in Reqs : UpstreamEnds(r)
  \/ \E r \in Reqs : ExitSet(r)

SpecLocks == Init /\ [][NextLocks]_vars

\* the locks request r holds
Held(r) == {m \in DOMAIN locks : locks[m] = r}

Stale(c) == {d \in DOMAIN rlast \ {c} : now - rlast[d] > client_ttl}

\* C28: the rate limiter's per-client state is bounded by garbage
\* collection run from acquire: a client entry that has not been touched
\* for client_ttl is removed during a later acquire call of another client.
C28_StaleClientsCollected ==
  [][(last'.op = "acquire" /\ last' # last) =>
       \A d \in Stale(last'.client) :
         d \notin DOMAIN tokens' /\ d \notin DOMAIN rlast']_vars

\* ------------------------------------------------------- lockout expiry
\* C29: is_locked_out(client) returns (true, remaining) with remaining > 0
\* (the time left) while the client's lockout expiry lies in the future, and
\* changes nothing; the first call at or after the expiry returns (false, 0)
\* and removes the lockout and the client's failure history, so that the
\* next record_failure counts as the first of max_attempts; the other
\* clients' entries stay as they are.
C29_LockoutExpires ==
  last.op = "is_locked_out" =>
    LET c == last.client
        had == c \in DOMAIN last.lockouts
    IN /\ (had /\ last.lockouts[c] > last.at) =>
            /\ last.locked
            /\ last.remaining = last.lockouts[c] - last.at /\ last.remaining > 0
            /\ failures = last.failures /\ lockouts = last.lockouts
       /\ (had /\ last.lockouts[c] <= last.at) =>
            /\ ~last.locked /\ last.remaining = 0
            /\ c \notin DOMAIN lockouts /\ c \notin DOMAIN failures
            /\ failures = Drop(last.failures, c) /\ lockouts = Drop(last.lockouts, c)
            /\ ~RecordFailure(failures, lockouts, c, now).locked
            /\ RecordFailure(failures, lockouts, c, now).attempts_left = max_attempts - 1
       /\ ~had =>
            /\ ~last.locked /\ last.remaining = 0
            /\ failures = last.failures /\ lockouts = last.lockouts

C29_Witness ==
  /\ last.op = "is_locked_out" /\ ~last.locked
  /\ last.client \in DOMAIN last.lockouts
  /\ last.lockouts[last.client] = last.at
  /\ Len(Stored(last.failures, last.client)) >= max_attempts
  /\ \E d \in Clients \ {last.client} : d \in DOMAIN lockouts

\* ------------------------------------------------------- what set leaves alone
\* C30: set(k, v) changes no entry other than k, apart from removing
\* least-recently-used entries on overflow: every other key that remains
\* keeps its translations and its insertion time, keys other than k
\* disappear only from the least recently used end of a cache that
\* overflows, the counters stay as they are, and the translations stored
\* under a key change only in a set of that key.
C30_SetLeavesOthers ==
  [][/\ IsSetStep =>
          LET k == last'.key
              others == StoredKeys(cache') \ {k}
              gone == (StoredKeys(cache) \ StoredKeys(cache')) \ {k}
          IN /\ others \subseteq StoredKeys(cache)
             /\ \A j \in others :
                  /\ Entry(cache', j).data = Entry(cache, j).data
                  /\ Entry(cache', j).ts = Entry(cache, j).ts
             /\ gone # {} =>
                  /\ Len(SeqFilterOut(cache, k)) + 1 > max_size
                  /\ \A x \in gone, y \in others : Precedes(cache, x, y)
             /\ UNCHANGED <<hits, misses>>
     /\ \A j \in StoredKeys(cache) \cap StoredKeys(cache') :
          Entry(cache', j).data # Entry(cache, j).data =>
            (IsSetStep /\ last'.key = j)]_vars

C30_Witness ==
  /\ last.op = "set" /\ last.had /\ last.at > 0
  /\ Len(cache) = max_size
  /\ \E i \in 1..Len(cache) :
       /\ cache[i].key # last.key
       /\ cache[i].ts < last.at
       /\ cache[i].data # last.data
\* ---------------------------------------------------------------- C31
\* C31: after every sequence of acquire calls at non-decreasing times each
\* client's stored token count lies between 0 and burst, and a step that
\* admits no call of a client never lowers that client's count; an admitted
\* call lowers the refilled level by exactly one token.
C31_TokensBounded ==
  /\ \A c \in DOMAIN tokens : 0 <= tokens[c] /\ tokens[c] <= burst * Den
  /\ (last.op = "acquire" /\ ~last.new /\ ~last.allowed)
       => tokens[last.client] >= last.old
  /\ (last.op = "acquire" /\ ~last.new /\ last.allowed)
       => tokens[last.client] + Den >= last.old

\* a refused call stored more tokens than the bucket held before it
C31_Witness ==
  /\ last.op = "acquire" /\ ~last.new /\ ~last.allowed
  /\ tokens[last.client] > last.old

\* ------------------------------------------------------- categorize_error
MaxBody == 2

\* pieces of text an upstream error body is made of
Fragments ==
  {"context_length_exceeded", "token", "Token", "model", "not found", "invalid",
   "<html", "<!DOCTYPE", "oops"}

\* str.lower on a piece
Lower(w) ==
  IF w = "Token" THEN "token" ELSE IF w = "<!DOCTYPE" THEN "<!doctype" ELSE w

\* needle in response_text.lower()
InLower(body, needle) == \E i \in 1..Len(body) : Lower(body[i]) = needle

Bodies == UNION {[1..n -> Fragments] : n \in 0..MaxBody}

\* statuses of an upstream response other than 200
ErrorStatuses == {302, 400, 401, 402, 403, 404, 429, 500, 501, 502, 503, 504}

\* variant of CategorizeError that tests for a 5xx status before the gateway ones
CategorizeErrorServerFirst(status, body) ==
  IF status = 400
  THEN IF InLower(body, "context_length_exceeded") \/ InLower(body, "token")
       THEN "CONTEXT_LENGTH_EXCEEDED"
       ELSE IF InLower(body, "model")
                 /\ (InLower(body, "not found") \/ InLower(body, "invalid"))
            THEN "MODEL_NOT_FOUND"
            ELSE "BAD_REQUEST"
  ELSE IF status = 404 THEN "MODEL_NOT_FOUND"
  ELSE IF status = 429 THEN "RATE_LIMIT_EXCEEDED"
  ELSE IF status = 401 THEN "UNAUTHORIZED"
  ELSE IF status = 403 THEN "FORBIDDEN"
  ELSE IF status >= 500 THEN "SERVER_ERROR"
  ELSE "UNKNOWN_ERROR"

\* categorize_error: the error type of the returned pair
CategorizeError(status, body) ==
  IF status = 400
  THEN IF InLower(body, "context_length_exceeded") \/ InLower(body, "token")
       THEN "CONTEXT_LENGTH_EXCEEDED"
       ELSE IF InLower(body, "model")
                 /\ (InLower(body, "not found") \/ InLower(body, "invalid"))
            THEN "MODEL_NOT_FOUND"
            ELSE "BAD_REQUEST"
  ELSE IF status = 404 THEN "MODEL_NOT_FOUND"
  ELSE IF status = 429 THEN "RATE_LIMIT_EXCEEDED"
  ELSE IF status \in {502, 503}
  THEN IF InLower(body, "<html") \/ InLower(body, "<!doctype")
       THEN "PROXY_HTML_ERROR"
       ELSE "GATEWAY_ERROR"
  ELSE IF status = 504 THEN "GATEWAY_TIMEOUT"
  ELSE IF status = 401 THEN "UNAUTHORIZED"
  ELSE IF status = 403 THEN "FORBIDDEN"
  ELSE IF status >= 500 THEN "SERVER_ERROR"
  ELSE "UNKNOWN_ERROR"

InitError ==
  /\ now = 0
  /\ CacheInit /\ RateInit /\ AuthInit /\ ParserIdle /\ PipeInit
  /\ \E status \in ErrorStatuses, body \in Bodies :
       last = [op |-> "error", status |-> status, body |-> body, type |-> "none"]

\* one call categorize_error(response.status_code, response.text)
CategorizeCall ==
  /\ last.op = "error"
  /\ last' = [last EXCEPT !.op = "categorized",
                          !.type = CategorizeError(last.status, last.body)]
  /\ UNCHANGED <<now, cacheVars, rateVars, authVars, parseVars, pipeVars>>

NextError == CategorizeCall

SpecError == InitError /\ [][NextError]_vars

\* ---------------------------------------------------------------- C32
\* the exact pieces of the body, as they are written
Says(body, w) == \E i \in 1..Len(body) : body[i] = w
MentionsLimit(body) ==
  Says(body, "context_length_exceeded") \/ Says(body, "token") \/ Says(body, "Token")
LooksHtml(body) == Says(body, "<html") \/ Says(body, "<!DOCTYPE")
NamesModel(body) ==
  Says(body, "model") /\ (Says(body, "not found") \/ Says(body, "invalid"))

\* C32 as stated: 401 is UNAUTHORIZED, 403 FORBIDDEN, 404 MODEL_NOT_FOUND, 400
\* CONTEXT_LENGTH_EXCEEDED when the body mentions token or context limits and
\* BAD_REQUEST otherwise, 502 and 503 GATEWAY_ERROR or its HTML variant, 504
\* TIMEOUT, any other 5xx SERVER_ERROR and every other status UNKNOWN_ERROR.
C32_TableAsStated ==
  last.op = "categorized" =>
    last.type =
      (CASE last.status = 401 -> "UNAUTHORIZED"
         [] last.status = 403 -> "FORBIDDEN"
         [] last.status = 404 -> "MODEL_NOT_FOUND"
         [] last.status = 400 ->
              IF MentionsLimit(last.body) THEN "CONTEXT_LENGTH_EXCEEDED"
              ELSE "BAD_REQUEST"
         [] last.status \in {502, 503} ->
              IF LooksHtml(last.body) THEN "PROXY_HTML_ERROR" ELSE "GATEWAY_ERROR"
         [] last.status = 504 -> "TIMEOUT"
         [] last.status \in {500, 501} -> "SERVER_ERROR"
         [] OTHER -> "UNKNOWN_ERROR")

\* C32 (amended): categorize_error gives every non-200 status one category.
\* The body matters only for 400, 502 and 503, and only up to letter case: a
\* 400 that mentions tokens or the context length is CONTEXT_LENGTH_EXCEEDED,
\* another 400 that names a model as not found or invalid is MODEL_NOT_FOUND,
\* any other 400 is BAD_REQUEST; 502 and 503 are PROXY_HTML_ERROR for an HTML
\* body and GATEWAY_ERROR otherwise; 404 is MODEL_NOT_FOUND, 429
\* RATE_LIMIT_EXCEEDED, 504 GATEWAY_TIMEOUT, 401 UNAUTHORIZED, 403 FORBIDDEN,
\* any other 5xx SERVER_ERROR and every remaining status UNKNOWN_ERROR.
C32_ErrorTable ==
  last.op = "categorized" =>
    LET s == last.status
        b == last.body
        t == last.type
    IN /\ (t = "CONTEXT_LENGTH_EXCEEDED") <=> (s = 400 /\ MentionsLimit(b))
       /\ (t = "BAD_REQUEST") <=> (s = 400 /\ ~MentionsLimit(b) /\ ~NamesModel(b))
       /\ (t = "MODEL_NOT_FOUND")
            <=> (s = 404 \/ (s = 400 /\ ~MentionsLimit(b) /\ NamesModel(b)))
       /\ (t = "RATE_LIMIT_EXCEEDED") <=> (s = 429)
       /\ (t = "PROXY_HTML_ERROR") <=> (s \in {502, 503} /\ LooksHtml(b))
       /\ (t = "GATEWAY_ERROR") <=> (s \in {502, 503} /\ ~LooksHtml(b))
       /\ (t = "GATEWAY_TIMEOUT") <=> (s = 504)
       /\ (t = "UNAUTHORIZED") <=> (s = 401)
       /\ (t = "FORBIDDEN") <=> (s = 403)
       /\ (t = "SERVER_ERROR") <=> (s >= 500 /\ s \notin {502, 503, 504})
       /\ (t = "UNKNOWN_ERROR") <=> (s < 500 /\ s \notin {400, 401, 403, 404, 429})
       /\ t # "TIMEOUT"

\* a 503 whose body is an upper-case HTML page was given the HTML category
C32_Witness ==
  /\ last.op = "categorized"
  /\ last.status = 503
  /\ last.body = <<"<!DOCTYPE", "oops">>
  /\ last.type = "PROXY_HTML_ERROR"

\* ---------------------------------------------------------------- C33
\* C33: a request that passed the lockout check before its client was locked
\* is not rejected for the lockout and, once it called the upstream, is
\* answered from its upstream call; a request of that client that
\* arrives while the lockout lasts is rejected without an upstream call.
C33_LockoutSparesOnlyInFlight ==
  \A q \in Requests :
    /\ ~q.underLock => ~q.sawLock
    /\ (~q.underLock /\ q.pc = "done" /\ q.ncalls > 0) => q.resp.status # 429
    /\ q.underLock => (q.sawLock /\ q.pc = "done" /\ q.ncalls = 0)

\* ---------------------------------------------------------------- C34
\* s is the end of t
IsSuffix(s, t) == Len(s) <= Len(t) /\ SubSeq(t, Len(t) - Len(s) + 1, Len(t)) = s

RECURSIVE LiteralChars(_)
\* the fewest characters of text the strings of `items` are written with
LiteralChars(items) ==
  IF items = <<>> THEN 0 ELSE Len(Head(items)) + 2 + LiteralChars(Tail(items))

\* the chunks the feed step from the current state may have been given
FedChunks ==
  IF rest # <<>> THEN {SubSeq(rest, 1, last'.n)}
  ELSE {c \in TailChunks : Len(c) = last'.n}

\* C34: once in_array is true it stays true through every later feed; the
\* buffer after a feed is an end piece of the old buffer followed by the
\* chunk, shorter by at least the text of the items the feed returned, so a
\* returned item is no longer in the buffer and is not parsed again; and
\* items_yielded is the number of items returned over all feeds so far.
C34_ParserStateKept ==
  [][/\ parser.in_array => parser'.in_array
     /\ parser'.items_yielded = parser.items_yielded + Len(last'.items)
     /\ parser'.items_yielded = Len(emitted')
     /\ emitted' = emitted \o last'.items
     /\ \E chunk \in FedChunks :
          /\ IsSuffix(parser'.buffer, parser.buffer \o chunk)
          /\ Len(parser.buffer) + Len(chunk) - Len(parser'.buffer)
               >= LiteralChars(last'.items)]_vars

\* after the closing bracket was reached a further feed returned nothing, the
\* parser still in the array with the two items it returned counted
C34_Witness ==
  /\ rest = <<>>
  /\ last.op = "feed" /\ last.items = <<>>
  /\ parser.in_array /\ parser.items_yielded = 2
  /\ Len(emitted) = 2
  /\ parser.buffer # <<>> /\ Head(parser.buffer) = "]" /\ Len(parser.buffer) > 3

\* ---------------------------------------------------------------- C35
\* the translations a streaming response carries in its item frames
FrameTranslations(fs) ==
  [i \in 1..Len(ItemFramesOf(fs)) |-> ItemFramesOf(fs)[i].translation]

\* the array a completed request q delivered to its client
Delivered(q) ==
  IF q.stream THEN FrameTranslations(q.frames) ELSE LoadsList(q.resp.content)

\* the requests whose upstream call ended in this step with a write to the cache
Storing ==
  {r \in Reqs : /\ reqs[r].pc \in {"upstream", "retry", "streaming"}
                /\ reqs'[r].pc = "idle" /\ cache' # cache}

\* C35: the array a batch or streaming miss stores in the cache is, element
\* by element, the array its own response carries (the envelope content
\* parsed as JSON, or the translations of the item frames), also after the
\* quality retry replaced items; and a request served from the cache
\* delivers the stored array.
C35_StoredIsDelivered ==
  [][/\ \A r \in Storing :
          LET q == done' IN
            /\ HasKey(cache', q.key)
            /\ q.resp.status = 200
            /\ ~q.stream => IsList(q.resp.content)
            /\ Delivered(q) = Entry(cache', q.key).data
     /\ (arrived' = arrived + 1 /\ Arrival.hit) =>
          Delivered(Arrival) = Entry(cache, Arrival.key).data]_vars

\* a request was served from the cache the array that a retry had completed
C35_Witness ==
  /\ done.pc = "done" /\ done.hit /\ done.key = 2
  /\ done.cached = <<B, B>>
  /\ Delivered(done) = <<B, B>>

\* ------------------------------------- the parser on any text, valid or not
MaxText == 5

\* the characters the texts are made of
TextChars == {"[", "]", ",", QUOTE, BSL, "a", " "}

AnyTexts == UNION {[1..n -> TextChars] : n \in 1..MaxText}

InitAnyText ==
  /\ now = 0
  /\ CacheInit /\ RateInit /\ AuthInit /\ PipeInit
  /\ parser = NewParser
  /\ expected = <<>>
  /\ text \in AnyTexts
  /\ rest = text
  /\ emitted = <<>>
  /\ cutEsc = FALSE
  /\ last = NoOp

SpecAnyText == InitAnyText /\ [][NextParser]_vars

\* ---------------------------------------------------------------- C36
\* the part of the text fed so far
FedSoFar == SubSeq(text, 1, Len(text) - Len(rest))

\* C36: for every text, valid JSON or not, and every way of cutting it into
\* consecutive chunks, the lists returned by the feed calls, concatenated,
\* are the list one feed of the same text returns (and the parser is left in
\* the same state), so any two ways of cutting give the same result.
C36_ChunkingInvariant ==
  LET whole == Feed(NewParser, FedSoFar)
  IN /\ emitted = whole.items
     /\ parser = whole.parser

\* a text that is no JSON, fed in more than one chunk, returned an item
C36_Witness ==
  /\ text = <<"[", QUOTE, "a", QUOTE, "a">>
  /\ rest = <<>>
  /\ last.op = "feed" /\ last.n = 2
  /\ emitted = << <<"a">> >>
  /\ parser.buffer = <<"a">>

\* ---------------------------------------------------------------- C37
\* a done frame or an error frame
Terminal(f) == "done" \in DOMAIN f \/ "error" \in DOMAIN f

\* the last frame of fs is its only terminal frame
EndsOnce(fs) ==
  /\ fs # <<>>
  /\ Terminal(fs[Len(fs)])
  /\ ~("done" \in DOMAIN fs[Len(fs)] /\ "error" \in DOMAIN fs[Len(fs)])
  /\ \A i \in 1..(Len(fs) - 1) : ~Terminal(fs[i])

CacheServed == arrived' = arrived + 1 /\ Arrival.hit

\* no upstream call, no credential check, and one token of the client taken
ServedLocally(q) ==
  /\ q.pc = "done" /\ q.ncalls = 0 /\ q.resp.status = 200
  /\ InFlight' = InFlight
  /\ lockedUntil' = lockedUntil
  /\ tokens'[q.client] = LevelAt(tokens, rlast, q.client, now) - Den
  /\ rlast'[q.client] = now

\* C38 (as amended): a request served from the cache is answered without a
\* check of its credentials and calls neither record_success nor
\* record_failure, while one rate-limit token of its client is consumed.
\* The auth limiter is changed by the lockout check at the start of the
\* request only: a lockout of the client that has expired is removed
\* together with the client's failure history; otherwise the failure
\* history and the lockouts are the same before and after, as are those of
\* every other client in either case.
C38_CachedLeavesAuthButExpiry ==
  [][CacheServed =>
       LET q == Arrival
           c == q.client
       IN /\ ServedLocally(q)
          /\ \A d \in Clients \ {c} :
               /\ Stored(failures', d) = Stored(failures, d)
               /\ (d \in DOMAIN lockouts') = (d \in DOMAIN lockouts)
               /\ d \in DOMAIN lockouts => lockouts'[d] = lockouts[d]
               /\ (d \in DOMAIN failures') = (d \in DOMAIN failures)
          /\ IF c \in DOMAIN lockouts
             THEN /\ lockouts[c] <= now
                  /\ c \notin DOMAIN lockouts' /\ c \notin DOMAIN failures'
             ELSE failures' = failures /\ lockouts' = lockouts]_vars

\* the client's lockout ran out at the time it was served from the cache
C38_Witness ==
  /\ done.pc = "done" /\ done.hit /\ done.client = "c1"
  /\ "c1" \in DOMAIN lockedUntil /\ lockedUntil["c1"] = now
  /\ "c1" \notin DOMAIN lockouts /\ "c1" \notin DOMAIN failures

\* C38 (as stated): a request served from the cache leaves the auth limiter
\* unchanged, is answered without a check of its credentials and calls
\* neither record_success nor record_failure, so the failure history and the
\* lockouts are the same before and after, while one rate-limit token of the
\* client is consumed.
C38_CachedLeavesAuth ==
  [][CacheServed =>
       /\ ServedLocally(Arrival)
       /\ failures' = failures
       /\ lockouts' = lockouts]_vars

\* --------------------------------- one feed call, statement by statement
\* self.buffer[i] (0-based); past the end Python raises IndexError
CharAt(b, i) == IF i < Len(b) THEN b[i + 1] ELSE "IndexError"

\* a parser that was fed the first k characters of a text is about to be fed
\* the remaining ones in one call
InitFeedSteps ==
  /\ now = 0
  /\ CacheInit /\ RateInit /\ AuthInit /\ PipeInit
  /\ expected = <<>>
  /\ emitted = <<>>
  /\ cutEsc = FALSE
  /\ text \in AnyTexts
  /\ \E k \in 0..(Len(text) - 1) :
       /\ parser = Feed(NewParser, SubSeq(text, 1, k)).parser
       /\ rest = SubSeq(text, k + 1, Len(text))
       /\ last = [op |-> "call", k |-> k, i |-> 0]

\* feed up to the while loop: self.buffer += chunk and the search for "["
FeedStart ==
  /\ last.op = "call"
  /\ LET buf == parser.buffer \o rest
         start == Find(buf, "[", 1)
     IN IF ~parser.in_array /\ start = 0
        THEN /\ parser' = [parser EXCEPT !.buffer = buf]
             /\ last' = [last EXCEPT !.op = "return"]
        ELSE /\ parser' = [parser EXCEPT
                             !.buffer = IF parser.in_array THEN buf
                                        ELSE SubSeq(buf, start + 1, Len(buf)),
                             !.in_array = TRUE]
             /\ last' = [last EXCEPT !.op = "loop"]
  /\ rest' = <<>>
  /\ UNCHANGED <<now, cacheVars, rateVars, authVars, pipeVars, expected, emitted,
                 cutEsc, text>>

\* one iteration of the while loop of feed, up to the call of _parse_string
LoopIter ==
  /\ last.op = "loop"
  /\ LET b == LStrip(parser.buffer) IN
       IF parser.buffer = <<>>
       THEN /\ last' = [last EXCEPT !.op = "return"]
            /\ UNCHANGED parser
       ELSE IF b = <<>> \/ Head(b) = "]"
       THEN /\ parser' = [parser EXCEPT !.buffer = b]
            /\ last' = [last EXCEPT !.op = "return"]
       ELSE IF Head(b) = ","
       THEN /\ parser' = [parser EXCEPT !.buffer = LStrip(Tail(b))]
            /\ UNCHANGED last
       ELSE IF Head(b) = QUOTE
       THEN /\ parser' = [parser EXCEPT !.buffer = b]
            /\ last' = [last EXCEPT !.op = "scan", !.i = 1]
       ELSE /\ parser' = [parser EXCEPT !.buffer = b]
            /\ last' = [last EXCEPT !.op = "return"]
  /\ UNCHANGED <<now, cacheVars, rateVars, authVars, pipeVars, expected, emitted,
                 cutEsc, text, rest>>

\* variant of ScanStep whose loop condition admits the index len(buffer)
ScanStepInclusive ==
  /\ last.op = "scan"
  /\ LET b == parser.buffer
         i == last.i
         ch == CharAt(b, i)
     IN IF ~(i <= Len(b))
        THEN /\ last' = [last EXCEPT !.op = "return"]
             /\ UNCHANGED <<parser, emitted>>
        ELSE IF ch = "IndexError"
        THEN /\ last' = [last EXCEPT !.op = "raised"]
             /\ UNCHANGED <<parser, emitted>>
        ELSE IF ch = BSL
        THEN /\ last' = [last EXCEPT !.i = i + 2]
             /\ UNCHANGED <<parser, emitted>>
        ELSE IF ch = QUOTE
        THEN LET r == Close(b, i + 1) IN
               IF r.ok
               THEN /\ parser' = [parser EXCEPT !.buffer = r.remaining,
                                                !.items_yielded = @ + 1]
                    /\ emitted' = Append(emitted, r.item)
                    /\ last' = [last EXCEPT !.op = "loop"]
               ELSE /\ last' = [last EXCEPT !.op = "return"]
                    /\ UNCHANGED <<parser, emitted>>
        ELSE /\ last' = [last EXCEPT !.i = i + 1]
             /\ UNCHANGED <<parser, emitted>>
  /\ UNCHANGED <<now, cacheVars, rateVars, authVars, pipeVars, expected, cutEsc,
                 text, rest>>

\* one iteration of the while loop of _parse_string, and what feed does with
\* the pair it returns
ScanStep ==
  /\ last.op = "scan"
  /\ LET b == parser.buffer
         i == last.i
         ch == CharAt(b, i)
     IN IF ~(i < Len(b))
        THEN /\ last' = [last EXCEPT !.op = "return"]
             /\ UNCHANGED <<parser, emitted>>
        ELSE IF ch = "IndexError"
        THEN /\ last' = [last EXCEPT !.op = "raised"]
             /\ UNCHANGED <<parser, emitted>>
        ELSE IF ch = BSL
        THEN /\ last' = [last EXCEPT !.i = i + 2]
             /\ UNCHANGED <<parser, emitted>>
        ELSE IF ch = QUOTE
        THEN LET r == Close(b, i + 1) IN
               IF r.ok
               THEN /\ parser' = [parser EXCEPT !.buffer = r.remaining,
                                                !.items_yielded = @ + 1]
                    /\ emitted' = Append(emitted, r.item)
                    /\ last' = [last EXCEPT !.op = "loop"]
               ELSE /\ last' = [last EXCEPT !.op = "return"]
                    /\ UNCHANGED <<parser, emitted>>
        ELSE /\ last' = [last EXCEPT !.i = i + 1]
             /\ UNCHANGED <<parser, emitted>>
  /\ UNCHANGED <<now, cacheVars, rateVars, authVars, pipeVars, expected, cutEsc,
                 text, rest>>

NextFeedSteps == FeedStart \/ LoopIter \/ ScanStep

SpecFeedSteps == InitFeedSteps /\ [][NextFeedSteps]_vars

\* ---------------------------------------------------------------- C39
\* what the whole call returns, by the operator Feed
WholeFeed ==
  Feed(Feed(NewParser, SubSeq(text, 1, last.k)).parser,
       SubSeq(text, last.k + 1, Len(text)))

\* C39: for every chunk and every prior parser state a feed call ends: an
\* iteration of its parsing loop after which the loop goes on has strictly
\* shortened the buffer, the scan of a string moves its index forward in
\* every iteration and reads only inside the buffer (no IndexError is
\* raised), and the call returns what feed is defined to return.
C39_FeedTerminates ==
  [][/\ (last.op \in {"loop", "scan"} /\ last'.op = "loop")
          => Len(parser'.buffer) < Len(parser.buffer)
     /\ last.op \in {"loop", "scan"} => Len(parser'.buffer) <= Len(parser.buffer)
     /\ (last.op = "scan" /\ last'.op = "scan")
          => (last.i < Len(parser.buffer) /\ last'.i > last.i)
     /\ last'.op = "scan" => last'.i <= Len(parser'.buffer) + 1
     /\ last'.op # "raised"
     /\ last'.op = "return"
          => (parser' = WholeFeed.parser /\ emitted' = WholeFeed.items)]_vars

\* a call that went twice through the loop returned an item and left the
\* backslash at the end of the buffer unread
C39_Witness ==
  /\ last.op = "return"
  /\ text = <<"[", QUOTE, QUOTE, QUOTE, BSL>>
  /\ emitted = << <<>> >>
  /\ parser.buffer = <<QUOTE, BSL>>

\* ------------------------------------------------------------ call_gemini
MAX_RETRIES == 2

\* expected_len=None
NoLen == 0 - 1
ExpectedLens == {NoLen, 1, 2}

\* response.text of one generate_content call: None, or a text
NoText == [none |-> TRUE, text |-> <<>>]
Reply(t) == [none |-> FALSE, text |-> t]
Replies ==
  {NoText, Reply(Garbage), Reply(Literal(A)), Reply(Dumps(<<A>>)),
   Reply(Encode(<<A, B>>, "compact")), Reply(Dumps(<<>>))}

\* json.loads(response_text): JSONDecodeError, or the value's type and length
JsonLoads(t) ==
  IF IsList(t) THEN [ok |-> TRUE, list |-> TRUE, n |-> Len(LoadsList(t))]
  ELSE IF \E s \in ItemStrs : t = Literal(s) THEN [ok |-> TRUE, list |-> FALSE, n |-> 0]
  ELSE [ok |-> FALSE, list |-> FALSE, n |-> 0]

\* the caller's list of contents
Prompt == <<"user">>

\* MAX_RETRIES + 1 if validate_json else 1
MaxAttempts(validate) == IF validate THEN MAX_RETRIES + 1 ELSE 1

\* variant of RepairContext that appends to the list it was given
RepairContextInPlace(g) ==
  [g EXCEPT !.contents = @ \o <<"model", "user">>,
            !.caller = IF g.aliased THEN @ \o <<"model", "user">> ELSE @]

\* contents = contents.copy() and the two appends of a repeated attempt; the
\* caller's list grows with them only while contents is that same list
RepairContext(g) ==
  [g EXCEPT !.contents = @ \o <<"model", "user">>, !.aliased = FALSE]

\* call_gemini is entered
InitGemini ==
  /\ now = 0
  /\ CacheInit /\ RateInit /\ AuthInit /\ ParserIdle /\ PipeInit
  /\ \E validate \in BOOLEAN, n \in ExpectedLens :
       last = [op |-> "gemini", pc |-> "loop", validate |-> validate,
               expected_len |-> n, attempt |-> 0, replies |-> <<>>,
               sent |-> <<>>, contents |-> Prompt, caller |-> Prompt,
               aliased |-> TRUE, response_text |-> NoText, success |-> FALSE]

\* one iteration of the for loop whose generate_content call returns
GeminiAttempt ==
  /\ last.op = "gemini" /\ last.pc = "loop"
  /\ last.attempt < MaxAttempts(last.validate)
  /\ \E reply \in Replies :
       LET g0 == IF last.attempt > 0 THEN RepairContext(last) ELSE last
           g == [g0 EXCEPT !.replies = Append(@, reply),
                           !.sent = Append(@, g0.contents),
                           !.response_text = reply]
           p == JsonLoads(reply.text)
           final == last.attempt = MaxAttempts(last.validate) - 1
       IN last' =
            IF ~g.validate THEN [g EXCEPT !.pc = "returned", !.success = TRUE]
            ELSE IF reply.none THEN [g EXCEPT !.attempt = @ + 1]
            ELSE IF ~p.ok
                 THEN IF final THEN [g EXCEPT !.pc = "returned", !.success = FALSE]
                      ELSE [g EXCEPT !.attempt = @ + 1]
            ELSE IF p.list /\ (g.expected_len = NoLen \/ p.n = g.expected_len)
                 THEN [g EXCEPT !.pc = "returned", !.success = TRUE]
                 ELSE [g EXCEPT !.attempt = @ + 1]
  /\ UNCHANGED <<now, cacheVars, rateVars, authVars, parseVars, pipeVars>>

\* generate_content raises: the exception leaves call_gemini
GeminiRaise ==
  /\ last.op = "gemini" /\ last.pc = "loop"
  /\ last.attempt < MaxAttempts(last.validate)
  /\ LET g0 == IF last.attempt > 0 THEN RepairContext(last) ELSE last
     IN last' = [g0 EXCEPT !.pc = "raised", !.sent = Append(@, g0.contents)]
  /\ UNCHANGED <<now, cacheVars, rateVars, authVars, parseVars, pipeVars>>

\* the for loop is exhausted: return response_text, False, usage
GeminiExhausted ==
  /\ last.op = "gemini" /\ last.pc = "loop"
  /\ last.attempt = MaxAttempts(last.validate)
  /\ last' = [last EXCEPT !.pc = "returned", !.success = FALSE]
  /\ UNCHANGED <<now, cacheVars, rateVars, authVars, parseVars, pipeVars>>

NextGemini == GeminiAttempt \/ GeminiRaise \/ GeminiExhausted

SpecGemini == InitGemini /\ [][NextGemini]_vars

\* ---------------------------------------------------------------- C40
\* the reply is the text of a JSON list of the expected length
GoodReply(reply, n) ==
  /\ ~reply.none
  /\ \E items \in AllUpItems :
       /\ \E st \in Styles : Encode(items, st) = reply.text
       /\ n = NoLen \/ Len(items) = n

\* C40: call_gemini makes at most MAX_RETRIES + 1 upstream calls with
\* validation and exactly one without; with validation it returns success
\* exactly when its last reply is the text of a JSON list of the expected
\* length (of any length when expected_len is absent), no earlier reply having
\* been one, and it returns failure only after MAX_RETRIES + 1 such replies;
\* the caller's list of contents is never changed, each repeated call being
\* sent a copy that is two entries longer.
C40_CallGeminiBounded ==
  last.op = "gemini" =>
    LET calls == Len(last.sent)
        n == last.expected_len
    IN /\ calls <= (IF last.validate THEN MAX_RETRIES + 1 ELSE 1)
       /\ last.caller = Prompt
       /\ \A j \in 1..calls : Len(last.sent[j]) = Len(Prompt) + 2 * (j - 1)
       /\ \A j \in 1..(Len(last.replies) - 1) : ~GoodReply(last.replies[j], n)
       /\ last.pc \in {"returned", "raised"} => calls >= 1
       /\ (last.pc = "returned" /\ ~last.validate) => (calls = 1 /\ last.success)
       /\ (last.pc = "returned" /\ last.validate) =>
            /\ calls = Len(last.replies)
            /\ last.response_text = last.replies[calls]
            /\ last.success <=> GoodReply(last.replies[calls], n)
            /\ ~last.success => calls = MAX_RETRIES + 1

\* the third call returned the expected list after an unparsable text and a
\* list of the wrong length
C40_Witness ==
  /\ last.op = "gemini" /\ last.pc = "returned" /\ last.validate
  /\ last.expected_len = 2
  /\ last.replies = <<Reply(Garbage), Reply(Dumps(<<A>>)), Reply(Encode(<<A, B>>, "compact"))>>
  /\ last.success
  /\ Len(last.sent[3]) = 5 /\ last.caller = Prompt

====
